---------------------------- MODULE Spec2Model ----------------------------
(***************************************************************************)
(* Model of the allocation engine of medsupply-backend:                    *)
(*   app/core/matching.py   greedy_match, run_match, cost and feasibility  *)
(*   app/core/solver.py     capacity-expanded Hungarian solver             *)
(*   app/core/metrics.py    compute_metrics                                *)
(*   app/core/simulate.py   run_scenario and its perturbations             *)
(*   app/api/v1/endpoints   the request handlers that call them            *)
(*                                                                         *)
(* Numbers.  Python floats are modelled by exact arithmetic:               *)
(*   - a ratio is a pair <<num, den>> with den > 0, compared by cross      *)
(*     multiplication;                                                     *)
(*   - a cost is an integer in fixed point: the float cost times           *)
(*     CostScale(constraints), which is exact because every capacity of    *)
(*     the model divides CapLcm and the weights are tenths;                *)
(*   - bed counts (capacity_tt, occupied_tt) are integers;                 *)
(*   - a place is a point on one meridian, counted in steps of 10 km, for  *)
(*     which the haversine formula is the length of the arc between them.  *)
(* Text (service lists, case names) is a sequence of one-character         *)
(* strings, so that lower(), str() and the substring test are computed.    *)
(***************************************************************************)
EXTENDS Integers, Sequences, FiniteSets, TLC

VARIABLES
    patients,       \* patients_df of the request: a sequence of patient rows
    facilities,     \* facilities_df of the request: a sequence of facility rows
    config,         \* the configuration dict
    pc,             \* where the handler is
    queue,          \* greedy_match: the rows patients_iter has still to yield
    capacity_map,   \* greedy_match: id_rs -> [capacity_tt, occupied_tt]
    assignments,    \* greedy_match: the assignments list so far
    hung,           \* _hungarian_square: the state of _cover_zeros
    result,         \* what the handler returned (NoResult before it returns)
    scenario,       \* run_scenario: the scenario dict
    sim,            \* run_scenario: its locals and its return value
    tie_order       \* how this build's sort_values orders rows of equal severity

vars == <<patients, facilities, config, pc, queue, capacity_map, assignments,
          hung, result, scenario, sim, tie_order>>

-----------------------------------------------------------------------------
(* Bounds of the model. *)

MaxPatients == 2
MaxCap == 2

-----------------------------------------------------------------------------
(* Arithmetic helpers. *)

Min(a, b) == IF a <= b THEN a ELSE b
Max(a, b) == IF a >= b THEN a ELSE b
Abs(a) == IF a >= 0 THEN a ELSE -a

RECURSIVE Gcd(_, _)
Gcd(a, b) == IF b = 0 THEN a ELSE Gcd(b, a % b)

RECURSIVE LcmUpTo(_)
LcmUpTo(n) == IF n <= 1 THEN 1
              ELSE LET l == LcmUpTo(n - 1) IN (l * n) \div Gcd(l, n)

\* Every capacity the model can hold (an input capacity, or one lifted to the
\* occupied count by apply_capacity_drop) divides CapLcm.
CapLcm == LcmUpTo(MaxCap + 1)

\* Ratios <<num, den>>, den > 0.
RatEq(a, b) == a[1] * b[2] = b[1] * a[2]
RatLt(a, b) == a[1] * b[2] < b[1] * a[2]
RatLe(a, b) == a[1] * b[2] <= b[1] * a[2]
RatNorm(a) == LET g == Gcd(Abs(a[1]), a[2]) IN <<a[1] \div g, a[2] \div g>>
RatAdd(a, b) == RatNorm(<<a[1] * b[2] + b[1] * a[2], a[2] * b[2]>>)
RatSub(a, b) == RatNorm(<<a[1] * b[2] - b[1] * a[2], a[2] * b[2]>>)
RatMul(a, b) == RatNorm(<<a[1] * b[1], a[2] * b[2]>>)
RatZero == <<0, 1>>
RatOne == <<1, 1>>
RatAbs(a) == <<Abs(a[1]), a[2]>>

RECURSIVE SumSeq(_)
SumSeq(s) == IF s = <<>> THEN 0 ELSE Head(s) + SumSeq(Tail(s))

RECURSIVE RatSum(_)
RatSum(s) == IF s = <<>> THEN RatZero ELSE RatAdd(Head(s), RatSum(Tail(s)))

-----------------------------------------------------------------------------
(* Text. *)

Lower(ch) ==
    CASE ch = "I" -> "i" [] ch = "C" -> "c" [] ch = "U" -> "u"
      [] ch = "G" -> "g" [] ch = "D" -> "d" [] OTHER -> ch

LowerStr(s) == [k \in 1..Len(s) |-> Lower(s[k])]

\* Python's `a in b` for two strings.
IsSubstring(a, b) ==
    \E k \in 0..(Len(b) - Len(a)) : SubSeq(b, k + 1, k + Len(a)) = a

RECURSIVE JoinQuoted(_)
JoinQuoted(items) ==
    IF items = <<>> THEN <<>>
    ELSE <<"'">> \o Head(items) \o <<"'">>
         \o (IF Tail(items) = <<>> THEN <<>> ELSE <<",", " ">> \o JoinQuoted(Tail(items)))

\* Python's str() of a services value: a list prints as ['A', 'B'], a string
\* as itself.
PyStr(services) ==
    IF services.kind = "list"
    THEN <<"[">> \o JoinQuoted(services.items) \o <<"]">>
    ELSE services.text

-----------------------------------------------------------------------------
(* distance.py *)

\* haversine() between two points of one meridian that are a and b steps of
\* 10 km from the equator: the arc between them, in km.
Haversine(a, b) == 10 * Abs(a - b)

-----------------------------------------------------------------------------
(* Configuration: matching.py _extract_config. *)

\* A key of a dict: <<v>> when the dict holds it with value v, <<>> when it
\* does not.
Absent == <<>>
Some(v) == <<v>>

\* dict.get(key, default)
Get(v, default) == IF v = Absent THEN default ELSE v[1]

\* Weights and target_occupancy are tenths (6 is 0.6); max_load is a ratio;
\* radius_km is km.  A missing key takes the default of lines 23-31.
ExtractConfig(cfg) ==
    [ weights |-> [ wd |-> Get(cfg.weights.wd, 6),
                    wo |-> Get(cfg.weights.wo, 3),
                    wf |-> Get(cfg.weights.wf, 1) ],
      constraints |-> [ radius_km |-> Get(cfg.constraints.radius_km, 50),
                        max_load |-> Get(cfg.constraints.max_load, <<1, 1>>),
                        target_occupancy |-> Get(cfg.policy.target_occupancy, 7) ],
      solver |-> Get(cfg.solver, "greedy") ]

-----------------------------------------------------------------------------
(* Cost: matching.py _compute_cost and solver.py _compute_cost (the same    *)
(* formula, written twice).                                                *)

\* The factor that turns a float cost into the model's integer cost.
CostScale(constraints) ==
    100 * CapLcm * (IF constraints.radius_km > 0 THEN constraints.radius_km ELSE 1)

\* A cost with a fairness term: wf on top of distance and occupancy.
CostOfWithFairness(distance_km, occ, cap, weights, target_occ, radius_km) ==
    LET dpart == IF radius_km > 0
                 THEN weights.wd * 10 * CapLcm * Min(distance_km, radius_km)
                 ELSE weights.wd * 10 * CapLcm
        rs == IF radius_km > 0 THEN radius_km ELSE 1
        open == weights.wo * rs * (CapLcm \div cap) * Max(0, 10 * occ - target_occ * cap)
    IN  dpart + open + weights.wf * 10 * CapLcm * rs

\* wd * d_norm + wo * occ_penalty for occ_ratio = occ / cap, times CostScale:
\*   d_norm      = min(distance_km, radius_km) / radius_km, or 1.0 for radius 0
\*   occ_penalty = max(0, occ / cap - target_occupancy)
CostOf(distance_km, occ, cap, weights, target_occ, radius_km) ==
    LET dpart == IF radius_km > 0
                 THEN weights.wd * 10 * CapLcm * Min(distance_km, radius_km)
                 ELSE weights.wd * 10 * CapLcm
        rs == IF radius_km > 0 THEN radius_km ELSE 1
        open == weights.wo * rs * (CapLcm \div cap) * Max(0, 10 * occ - target_occ * cap)
    IN  dpart + open

\* matching.py _compute_cost(distance_km, occ_ratio, weights, constraints)
ComputeCost(distance_km, occ, cap, weights, constraints) ==
    CostOf(distance_km, occ, cap, weights,
           constraints.target_occupancy, constraints.radius_km)

\* solver.py _compute_cost(distance_km, occ_ratio, weights, target_occ, radius_km)
SolverComputeCost(distance_km, occ, cap, weights, target_occ, radius_km) ==
    CostOf(distance_km, occ, cap, weights, target_occ, radius_km)

-----------------------------------------------------------------------------
(* Feasibility: matching.py _services_match. *)

\* services_value is a list (a Postgres array) or a string; case is already
\* lower case when greedy_match calls this, and is lowered again.
ServicesMatch(services, case) ==
    IF case = <<>> THEN TRUE
    ELSE LET case_lower == LowerStr(case) IN
         IF services.kind = "list"
         THEN \E k \in 1..Len(services.items) : LowerStr(services.items[k]) = case_lower
         ELSE IsSubstring(case_lower, LowerStr(services.text))

-----------------------------------------------------------------------------
(* matching.py greedy_match. *)

\* sort_values("severity", ascending=False), line 137: rows by severity,
\* highest first.  The call names no kind, so the sort is pandas' default
\* quicksort, which fixes no order among rows of equal key: a build either
\* keeps their frame order or does not, the same way on every call.
TieOrders == {"kept", "reversed"}

HasTie(ps) == \E i, j \in 1..Len(ps) : i < j /\ ps[i].severity = ps[j].severity

RECURSIVE InsertBySeverity(_, _)
InsertBySeverity(sorted, p) ==
    IF sorted = <<>> THEN <<p>>
    ELSE IF \/ Head(sorted).severity > p.severity
            \/ (Head(sorted).severity = p.severity /\ tie_order = "kept")
         THEN <<Head(sorted)>> \o InsertBySeverity(Tail(sorted), p)
         ELSE <<p>> \o sorted

RECURSIVE SortBySeverityDesc(_)
SortBySeverityDesc(ps) ==
    IF ps = <<>> THEN <<>>
    ELSE InsertBySeverity(SortBySeverityDesc(SubSeq(ps, 1, Len(ps) - 1)), ps[Len(ps)])

\* capacity_map of lines 128-131: id_rs -> the two counts of its row.
CapacityMapOf(facs) ==
    [ id \in {facs[k].id_rs : k \in 1..Len(facs)} |->
        LET k == CHOOSE k \in 1..Len(facs) : facs[k].id_rs = id
        IN  [capacity_tt |-> facs[k].capacity_tt, occupied_tt |-> facs[k].occupied_tt] ]

\* The checks of lines 159-174 for patient p and facility row rs.
GreedyFeasible(p, rs, cmap, constraints) ==
    LET cap_info == cmap[rs.id_rs] IN
    /\ cap_info.capacity_tt > 0
    /\ ~ RatLe(constraints.max_load, <<cap_info.occupied_tt, cap_info.capacity_tt>>)
    /\ ServicesMatch(rs.services, LowerStr(p.kasus))
    /\ Haversine(p.pos, rs.pos) <= constraints.radius_km

\* A facility loop in which a later row also replaces the best one when its
\* cost is equal.
RECURSIVE GreedyScanLastWins(_, _, _, _, _, _, _)
GreedyScanLastWins(p, facs, k, cmap, ex, best, best_cost) ==
    IF k > Len(facs) THEN [best |-> best, cost |-> best_cost]
    ELSE LET rs == facs[k]
             cap_info == cmap[rs.id_rs]
             cost == ComputeCost(Haversine(p.pos, rs.pos), cap_info.occupied_tt,
                                 cap_info.capacity_tt, ex.weights, ex.constraints)
         IN  IF GreedyFeasible(p, rs, cmap, ex.constraints)
                /\ (best = 0 \/ cost <= best_cost)
             THEN GreedyScanLastWins(p, facs, k + 1, cmap, ex, k, cost)
             ELSE GreedyScanLastWins(p, facs, k + 1, cmap, ex, best, best_cost)

\* The facility loop of lines 147-180: best is 0 (best_choice is None) or the
\* row of the cheapest feasible facility so far; a later row replaces it only
\* when its cost is strictly smaller.
RECURSIVE GreedyScan(_, _, _, _, _, _, _)
GreedyScan(p, facs, k, cmap, ex, best, best_cost) ==
    IF k > Len(facs) THEN [best |-> best, cost |-> best_cost]
    ELSE LET rs == facs[k]
             cap_info == cmap[rs.id_rs]
             cost == ComputeCost(Haversine(p.pos, rs.pos), cap_info.occupied_tt,
                                 cap_info.capacity_tt, ex.weights, ex.constraints)
         IN  IF GreedyFeasible(p, rs, cmap, ex.constraints)
                /\ (best = 0 \/ cost < best_cost)
             THEN GreedyScan(p, facs, k + 1, cmap, ex, k, cost)
             ELSE GreedyScan(p, facs, k + 1, cmap, ex, best, best_cost)

\* A choice that walks the facilities in frame order in a first run and, in
\* a run after it, in an order that ends a tie with the last row.
GreedyBestUnordered(p, facs, cmap, ex) ==
    IF sim = [step |-> "none"] THEN GreedyScan(p, facs, 1, cmap, ex, 0, 0)
    ELSE LET cost(k) == ComputeCost(Haversine(p.pos, facs[k].pos),
                                    cmap[facs[k].id_rs].occupied_tt,
                                    cmap[facs[k].id_rs].capacity_tt, ex.weights, ex.constraints)
             feas == { k \in 1..Len(facs) : GreedyFeasible(p, facs[k], cmap, ex.constraints) }
             cheapest == { k \in feas : \A j \in feas : cost(k) <= cost(j) }
         IN  IF feas = {} THEN [best |-> 0, cost |-> 0]
             ELSE LET k == CHOOSE x \in cheapest : \A y \in cheapest : y <= x
                  IN  [best |-> k, cost |-> cost(k)]

GreedyBest(p, facs, cmap, ex) == GreedyScan(p, facs, 1, cmap, ex, 0, 0)

\* A patient loop that records the occupancy of the input frame instead of
\* the running counter.
GreedyPatientStale(st, p, facs, ex) ==
    LET b == GreedyBest(p, facs, st.capacity_map, ex) IN
    IF b.best = 0 THEN st
    ELSE LET rs == facs[b.best]
             info == st.capacity_map[rs.id_rs]
         IN  [ capacity_map |->
                 [st.capacity_map EXCEPT ![rs.id_rs].occupied_tt = info.occupied_tt + 1],
               assignments |-> Append(st.assignments,
                 [ patient_id |-> p.id_pasien,
                   hospital_id |-> rs.id_rs,
                   distance_km |-> Haversine(p.pos, rs.pos),
                   occ_before |-> <<rs.occupied_tt, info.capacity_tt>>,
                   occ_after |-> <<rs.occupied_tt + 1, info.capacity_tt>>,
                   cost |-> b.cost ]) ]

\* One pass of the patient loop, lines 141-202, on the loop's state
\* st = [capacity_map, assignments].
GreedyPatient(st, p, facs, ex) ==
    LET b == GreedyBest(p, facs, st.capacity_map, ex) IN
    IF b.best = 0 THEN st
    ELSE LET rs == facs[b.best]
             info == st.capacity_map[rs.id_rs]
             after == info.occupied_tt + 1
         IN  [ capacity_map |->
                 [st.capacity_map EXCEPT ![rs.id_rs].occupied_tt = after],
               assignments |-> Append(st.assignments,
                 [ patient_id |-> p.id_pasien,
                   hospital_id |-> rs.id_rs,
                   distance_km |-> Haversine(p.pos, rs.pos),
                   occ_before |-> <<info.occupied_tt, info.capacity_tt>>,
                   occ_after |-> <<after, info.capacity_tt>>,
                   cost |-> b.cost ]) ]

\* A summary that counts every patient as unassigned.
SummaryOfAllUnassigned(n_patients, asg) ==
    [ total_patients |-> n_patients,
      total_assigned |-> Len(asg),
      total_unassigned |-> n_patients ]

\* The summary dict of lines 204-212 and 278-285.
SummaryOf(n_patients, asg) ==
    [ total_patients |-> n_patients,
      total_assigned |-> Len(asg),
      total_unassigned |-> n_patients - Len(asg) ]

\* The facilities snapshot of lines 214-233.
GreedySnapshot(facs, cmap) ==
    [ k \in 1..Len(facs) |->
        LET info == cmap[facs[k].id_rs] IN
        [ hospital_id |-> facs[k].id_rs,
          capacity_tt |-> info.capacity_tt,
          occupied_tt |-> info.occupied_tt,
          occ_ratio |-> IF info.capacity_tt > 0
                        THEN <<info.occupied_tt, info.capacity_tt>> ELSE RatZero,
          wilayah |-> facs[k].wilayah ] ]

\* An empty-frame return that counts nobody as unassigned.
EmptyEnvelopeNoneLeft(n_patients) ==
    [ summary |-> [ total_patients |-> n_patients, total_assigned |-> 0,
                    total_unassigned |-> 0 ],
      assignments |-> <<>>,
      facilities |-> <<>> ]

\* The return value for an empty frame, lines 109-118 and 254-263.
EmptyEnvelope(n_patients) ==
    [ summary |-> [ total_patients |-> n_patients, total_assigned |-> 0,
                    total_unassigned |-> n_patients ],
      assignments |-> <<>>,
      facilities |-> <<>> ]

RECURSIVE GreedyLoop(_, _, _, _)
GreedyLoop(st, ps, facs, ex) ==
    IF ps = <<>> THEN st
    ELSE GreedyLoop(GreedyPatient(st, Head(ps), facs, ex), Tail(ps), facs, ex)

\* greedy_match(patients_df, facilities_df, config), as a function.
GreedyMatch(ps, facs, cfg) ==
    IF ps = <<>> \/ facs = <<>> THEN EmptyEnvelope(Len(ps))
    ELSE LET ex == ExtractConfig(cfg)
             st == GreedyLoop([capacity_map |-> CapacityMapOf(facs), assignments |-> <<>>],
                              SortBySeverityDesc(ps), facs, ex)
         IN  [ summary |-> SummaryOf(Len(ps), st.assignments),
               assignments |-> st.assignments,
               facilities |-> GreedySnapshot(facs, st.capacity_map) ]

-----------------------------------------------------------------------------
(* solver.py: slots and the cost matrix. *)

\* The sentinel of an infeasible pair.  The code's value is 1e9 in cost units;
\* the model keeps it far above the sum of any feasible costs (a feasible
\* cost is below CostScale, which is at most 24000 here) and small enough
\* for the matrix arithmetic of _hungarian_square to stay within TLC's
\* integers.
INF == 10000000

\* A slot count that takes every free bed, whatever max_load is.
ComputeAvailableSlotsAllFree(capacity_tt, occupied_tt, max_load) ==
    Max(0, capacity_tt - occupied_tt)

\* A slot count that keeps one bed back.
ComputeAvailableSlotsLessOne(capacity_tt, occupied_tt, max_load) ==
    Max(0, (max_load[1] * capacity_tt) \div max_load[2] - occupied_tt - 1)

\* compute_available_slots(capacity_tt, occupied_tt, max_load):
\* max(0, floor(max_load * capacity) - floor(occupied)).
ComputeAvailableSlots(capacity_tt, occupied_tt, max_load) ==
    LET cap_allow == (max_load[1] * capacity_tt) \div max_load[2]
    IN  Max(0, cap_allow - occupied_tt)

\* The slots one facility row contributes, lines 40-65.
SlotsOfFacility(rs, max_load) ==
    IF rs.capacity_tt <= 0 THEN <<>>
    ELSE LET avail == ComputeAvailableSlots(rs.capacity_tt, rs.occupied_tt, max_load)
         IN  [ k \in 1..avail |->
                 [ hospital_id |-> rs.id_rs,
                   slot_index |-> k - 1,
                   occ_ratio_before |-> <<rs.occupied_tt + (k - 1), rs.capacity_tt>>,
                   pos |-> rs.pos,
                   services |-> LowerStr(PyStr(rs.services)),
                   cap |-> rs.capacity_tt,
                   occ0 |-> rs.occupied_tt ] ]

\* build_capacity_expanded_slots(facilities_df, weights, constraints)
RECURSIVE BuildCapacityExpandedSlots(_, _)
BuildCapacityExpandedSlots(facs, constraints) ==
    IF facs = <<>> THEN <<>>
    ELSE SlotsOfFacility(Head(facs), constraints.max_load)
         \o BuildCapacityExpandedSlots(Tail(facs), constraints)

\* A matrix entry without the radius test.
CostEntryAnyDistance(p, s, weights, constraints) ==
    LET case == LowerStr(p.kasus)
        dist == Haversine(p.pos, s.pos)
    IN  IF case # <<>> /\ ~ IsSubstring(case, s.services) THEN INF
        ELSE SolverComputeCost(dist, s.occ_ratio_before[1], s.occ_ratio_before[2], weights,
                               constraints.target_occupancy, constraints.radius_km)

\* One entry of the matrix, lines 95-109.
CostEntry(p, s, weights, constraints) ==
    LET case == LowerStr(p.kasus)
        dist == Haversine(p.pos, s.pos)
    IN  IF case # <<>> /\ ~ IsSubstring(case, s.services) THEN INF
        ELSE IF dist > constraints.radius_km THEN INF
        ELSE SolverComputeCost(dist, s.occ_ratio_before[1], s.occ_ratio_before[2], weights,
                               constraints.target_occupancy, constraints.radius_km)

\* build_cost_matrix_with_capacity: C as a sequence of rows (a patient) of
\* columns (a slot); with no patient or no slot, a matrix of zeros with
\* max(1, n_slot) columns.
BuildCostMatrix(ps, slots, weights, constraints) ==
    IF Len(ps) = 0 \/ Len(slots) = 0
    THEN [ i \in 1..Len(ps) |-> [ j \in 1..Max(1, Len(slots)) |-> 0 ] ]
    ELSE [ i \in 1..Len(ps) |->
             [ j \in 1..Len(slots) |-> CostEntry(ps[i], slots[j], weights, constraints) ] ]

-----------------------------------------------------------------------------
(* solver.py: _hungarian_square and linear_sum_assignment.                  *)
(* Rows and columns are counted from 1; a matrix is a sequence of rows.    *)

MinOfSet(S) == CHOOSE x \in S : \A y \in S : x <= y

\* Step 1, line 125: cost -= cost.min(axis=1).
RowReduce(c, n) ==
    [ i \in 1..n |-> [ j \in 1..n |-> c[i][j] - MinOfSet({c[i][k] : k \in 1..n}) ] ]

\* Step 2, line 127: cost -= cost.min(axis=0).
ColReduce(c, n) ==
    [ i \in 1..n |-> [ j \in 1..n |-> c[i][j] - MinOfSet({c[k][j] : k \in 1..n}) ] ]

\* Lines 138-144: in each row, star the first zero whose column holds no star
\* yet.  st is the set of starred cells <<row, column>>.
RECURSIVE StarZeros(_, _, _, _)
StarZeros(c, n, i, st) ==
    IF i > n THEN st
    ELSE LET free == { j \in 1..n : c[i][j] = 0 /\ ~ \E r \in 1..n : <<r, j>> \in st }
         IN  IF free = {} THEN StarZeros(c, n, i + 1, st)
             ELSE StarZeros(c, n, i + 1, st \cup {<<i, MinOfSet(free)>>})

\* cover_columns_with_starred_zeros, lines 149-152.
CoverColumnsWithStarredZeros(st, n) == { j \in 1..n : \E i \in 1..n : <<i, j>> \in st }

\* The state of _cover_zeros when it first tests `col_covered.sum() < n`.
HungInit(cost) ==
    LET n == Len(cost)
        c == ColReduce(RowReduce(cost, n), n)
        st == StarZeros(c, n, 1, {})
    IN  [ n |-> n, c |-> c, starred |-> st, primed |-> {},
          row_covered |-> {}, col_covered |-> CoverColumnsWithStarredZeros(st, n) ]

\* The test of the outer loop, line 156, negated.
HungDone(h) == Cardinality(h.col_covered) >= h.n

\* The zeros that lines 164-173 look for: in an uncovered row and column.
UncoveredZeros(h) ==
    { cell \in (1..h.n) \X (1..h.n) :
        /\ cell[1] \notin h.row_covered
        /\ cell[2] \notin h.col_covered
        /\ h.c[cell[1]][cell[2]] = 0 }

\* The first of them in row order, then column order.
FirstUncoveredZero(h) ==
    LET z == UncoveredZeros(h)
        r == MinOfSet({cell[1] : cell \in z})
    IN  <<r, MinOfSet({cell[2] : cell \in {x \in z : x[1] = r}})>>

\* The minimum of the uncovered submatrix, lines 176-177.
UncoveredMin(h) ==
    MinOfSet({ h.c[i][j] : i \in (1..h.n) \ h.row_covered, j \in (1..h.n) \ h.col_covered })

\* An adjustment that adds the uncovered minimum to the covered columns and
\* subtracts nothing.
AdjustCoveredOnly(h) ==
    LET m == UncoveredMin(h) IN
    [ h EXCEPT !.c =
        [ i \in 1..h.n |-> [ j \in 1..h.n |->
            h.c[i][j] + (IF j \in h.col_covered THEN m ELSE 0) ] ] ]

\* Lines 176-179: subtract the uncovered minimum from the uncovered rows and
\* add it to the covered columns.
AdjustMatrix(h) ==
    LET m == UncoveredMin(h) IN
    [ h EXCEPT !.c =
        [ i \in 1..h.n |-> [ j \in 1..h.n |->
            h.c[i][j] - (IF i \in h.row_covered THEN 0 ELSE m)
                      + (IF j \in h.col_covered THEN m ELSE 0) ] ] ]

\* Lines 192-205: the path from the primed zero, through the star of its
\* column, the first prime of that star's row, and so on.
RECURSIVE AugmentingPath(_, _, _)
AugmentingPath(path, starred, primed) ==
    LET col == path[Len(path)][2]
        r_star == { cell[1] : cell \in { x \in starred : x[2] = col } }
    IN  IF r_star = {} THEN path
        ELSE LET r2 == MinOfSet(r_star)
                 path2 == Append(path, <<r2, col>>)
                 cands == { cell[2] : cell \in { x \in primed : x[1] = r2 } }
             IN  IF cands = {} THEN path2
                 ELSE AugmentingPath(Append(path2, <<r2, MinOfSet(cands)>>), starred, primed)

\* Lines 207-211: flip the star of every cell of the path, in path order.
RECURSIVE FlipStars(_, _)
FlipStars(path, starred) ==
    IF path = <<>> THEN starred
    ELSE FlipStars(Tail(path),
                   IF Head(path) \in starred THEN starred \ {Head(path)}
                   ELSE starred \cup {Head(path)})

\* One pass of the inner `while True` loop, lines 161-216.
HungStep(h) ==
    IF UncoveredZeros(h) = {} THEN AdjustMatrix(h)
    ELSE LET z == FirstUncoveredZero(h)
             primed == h.primed \cup {z}
             star_col == { cell[2] : cell \in { x \in h.starred : x[1] = z[1] } }
         IN  IF star_col # {}
             THEN [ h EXCEPT !.primed = primed,
                             !.row_covered = h.row_covered \cup {z[1]},
                             !.col_covered = h.col_covered \ {MinOfSet(star_col)} ]
             ELSE LET st == FlipStars(AugmentingPath(<<z>>, h.starred, primed), h.starred)
                  IN  [ h EXCEPT !.starred = st,
                                 !.primed = {},
                                 !.row_covered = {},
                                 !.col_covered = CoverColumnsWithStarredZeros(st, h.n) ]

RECURSIVE HungRun(_)
HungRun(h) == IF HungDone(h) THEN h ELSE HungRun(HungStep(h))

\* A row with no star gets column -1, lines 220-223; the model writes it 0.
NoCol == 0

\* An extraction that pairs row i with column i, whatever the stars say.
ExtractDiagonal(h) == [ i \in 1..h.n |-> <<i, i>> ]

\* An extraction that never fills row_ind: every pair names the first row.
ExtractFirstRow(h) ==
    [ i \in 1..h.n |->
        LET js == { cell[2] : cell \in { x \in h.starred : x[1] = i } }
        IN  <<1, IF js = {} THEN NoCol ELSE MinOfSet(js)>> ]

\* Lines 218-224: (row_ind, col_ind) as a sequence of pairs <<row, column>>.
ExtractAssignment(h) ==
    [ i \in 1..h.n |->
        LET js == { cell[2] : cell \in { x \in h.starred : x[1] = i } }
        IN  <<i, IF js = {} THEN NoCol ELSE MinOfSet(js)>> ]

\* _hungarian_square(cost)
HungarianSquare(cost) == ExtractAssignment(HungRun(HungInit(cost)))

\* Lines 240-241: cost in the top left corner of a size x size matrix of zeros.
PadSquare(cost, m, n) ==
    LET size == Max(m, n) IN
    [ i \in 1..size |-> [ j \in 1..size |->
        IF i <= m /\ j <= n THEN cost[i][j] ELSE 0 ] ]

\* A mask on the rows alone: the pairs of the padding columns stay.
MaskRowsOnly(pairs, m, n) == SelectSeq(pairs, LAMBDA pr : pr[1] <= m)

\* Lines 246-247: the pairs with row < m and col < n (column -1 passes).
MaskPairs(pairs, m, n) == SelectSeq(pairs, LAMBDA pr : pr[1] <= m /\ pr[2] <= n)

\* linear_sum_assignment(cost) for an m x n matrix, m >= 1.
LinearSumAssignment(cost) ==
    LET m == Len(cost)
        n == Len(cost[1])
    IN  IF m = n THEN HungarianSquare(cost)
        ELSE MaskPairs(HungarianSquare(PadSquare(cost, m, n)), m, n)

-----------------------------------------------------------------------------
(* solver.py: solve_hungarian_with_capacity. *)

\* Python's seq[k] for a column index that may be -1 (the last element).
PyIndex(k, len) == IF k = NoCol THEN len ELSE k

\* How many of the assignments asg went to hospital hid.
CountFor(asg, hid) == Cardinality({ k \in 1..Len(asg) : asg[k].hospital_id = hid })

\* The loop of lines 272-298 over the pairs (ri, ci), on the assignments made
\* so far; used_count_per_h[hid] is the number of them that name hid.
RECURSIVE DecodePairs(_, _, _, _, _)
DecodePairs(pairs, C, ps, slots, asg) ==
    IF pairs = <<>> THEN asg
    ELSE LET ri == Head(pairs)[1]
             ci == PyIndex(Head(pairs)[2], Len(slots))
             cost == C[ri][ci]
             s == slots[ci]
             used == CountFor(asg, s.hospital_id) + 1
         IN  IF cost >= INF THEN DecodePairs(Tail(pairs), C, ps, slots, asg)
             ELSE DecodePairs(Tail(pairs), C, ps, slots,
                    Append(asg,
                      [ patient_id |-> ps[ri].id_pasien,
                        hospital_id |-> s.hospital_id,
                        distance_km |-> Haversine(ps[ri].pos, s.pos),
                        occ_before |-> s.occ_ratio_before,
                        occ_after |-> <<s.occ0 + used, s.cap>>,
                        cost |-> cost ]))

\* The facilities snapshot of lines 302-319.
SolverSnapshot(facs, asg) ==
    [ k \in 1..Len(facs) |->
        LET occ == facs[k].occupied_tt + CountFor(asg, facs[k].id_rs) IN
        [ hospital_id |-> facs[k].id_rs,
          capacity_tt |-> facs[k].capacity_tt,
          occupied_tt |-> occ,
          occ_ratio |-> IF facs[k].capacity_tt > 0
                        THEN <<occ, facs[k].capacity_tt>> ELSE RatZero,
          wilayah |-> facs[k].wilayah ] ]

\* What solve_hungarian_with_capacity returns once linear_sum_assignment has
\* returned pairs: (assignments, facilities_snapshot).
DecodeSolution(pairs, C, ps, facs, slots) ==
    LET asg == DecodePairs(pairs, C, ps, slots, <<>>)
    IN  [ assignments |-> asg, facilities |-> SolverSnapshot(facs, asg) ]

\* solve_hungarian_with_capacity(patients_df, facilities_df, weights, constraints)
SolveHungarianWithCapacity(ps, facs, weights, constraints) ==
    LET slots == BuildCapacityExpandedSlots(facs, constraints)
        C == BuildCostMatrix(ps, slots, weights, constraints)
    IN  IF Len(ps) = 0 \/ Len(slots) = 0
        THEN [ assignments |-> <<>>, facilities |-> <<>> ]
        ELSE DecodeSolution(LinearSumAssignment(C), C, ps, facs, slots)

-----------------------------------------------------------------------------
(* matching.py: run_match. *)

\* run_match(patients_df, facilities_df, config), as a function.
RunMatch(ps, facs, cfg) ==
    IF ps = <<>> \/ facs = <<>> THEN EmptyEnvelope(Len(ps))
    ELSE LET ex == ExtractConfig(cfg) IN
         IF ex.solver = "greedy" THEN GreedyMatch(ps, facs, cfg)
         ELSE IF ex.solver \in {"hungarian", "mcmf"}
         THEN LET sol == SolveHungarianWithCapacity(ps, facs, ex.weights, ex.constraints)
              IN  [ summary |-> SummaryOf(Len(ps), sol.assignments),
                    assignments |-> sol.assignments,
                    facilities |-> sol.facilities ]
         ELSE GreedyMatch(ps, facs, cfg)

-----------------------------------------------------------------------------
(* validate.py: the checks of validate_facilities_df on a loaded frame.     *)
(* Every place of the model has coordinates in range.                       *)

ValidateFacilitiesDf(facs) ==
    /\ \A k \in 1..Len(facs) : facs[k].capacity_tt > 0
    /\ \A k \in 1..Len(facs) : facs[k].occupied_tt >= 0
    /\ \A k \in 1..Len(facs) : facs[k].occupied_tt <= facs[k].capacity_tt

-----------------------------------------------------------------------------
(* metrics.py: compute_metrics.  Means are exact ratios.                    *)

\* np.mean of a non-empty list of ratios.
RatMean(s) == RatNorm(<<RatSum(s)[1], RatSum(s)[2] * Len(s)>>)

RECURSIVE RatMinSeq(_)
RatMinSeq(s) ==
    IF Len(s) = 1 THEN s[1]
    ELSE LET m == RatMinSeq(Tail(s)) IN IF RatLe(s[1], m) THEN s[1] ELSE m

RECURSIVE RatMaxSeq(_)
RatMaxSeq(s) ==
    IF Len(s) = 1 THEN s[1]
    ELSE LET m == RatMaxSeq(Tail(s)) IN IF RatLe(m, s[1]) THEN s[1] ELSE m

\* The square of np.std: the mean of the squares less the square of the mean.
RatVariance(s) ==
    RatSub(RatMean([k \in 1..Len(s) |-> RatMul(s[k], s[k])]), RatMul(RatMean(s), RatMean(s)))

\* compute_metrics lines 39-42: np.std(occ) / (occ_mean + 1e-6), or 0.0.  The
\* quotient is irrational in general, so the index is kept as the pair it is
\* computed from, (variance, mean) in lowest terms, with (0, 0) for the
\* value 0.0.  Two indexes over the ratios of the model (denominators up to
\* MaxCap + 1, at most two facilities) are the same number exactly when
\* their pairs are equal.
LoadBalanceIndex(occ_ratios) ==
    IF ~ RatLt(RatZero, RatMean(occ_ratios)) \/ RatVariance(occ_ratios)[1] = 0
    THEN [variance |-> RatZero, mean |-> RatZero]
    ELSE [variance |-> RatNorm(RatVariance(occ_ratios)), mean |-> RatNorm(RatMean(occ_ratios))]

LbiZero == [variance |-> RatZero, mean |-> RatZero]

\* compute_metrics(result), lines 10-74.  No assignment of either solver
\* carries a service_ok key, so service_flags is empty (lines 51-59).
ComputeMetrics(env) ==
    LET occ_ratios == [k \in 1..Len(env.facilities) |-> env.facilities[k].occ_ratio]
        distances == [k \in 1..Len(env.assignments) |-> <<env.assignments[k].distance_km, 1>>]
    IN  [ total_patients |-> env.summary.total_patients,
          total_assigned |-> env.summary.total_assigned,
          total_unassigned |-> env.summary.total_unassigned,
          avg_distance_km |-> IF env.assignments # <<>> THEN RatNorm(RatMean(distances))
                              ELSE RatZero,
          unmet_ratio |-> IF env.summary.total_patients > 0
                          THEN RatNorm(<<env.summary.total_unassigned,
                                         env.summary.total_patients>>)
                          ELSE RatZero,
          load_balance_index |-> IF occ_ratios # <<>> THEN LoadBalanceIndex(occ_ratios)
                                 ELSE LbiZero,
          occ_mean |-> IF occ_ratios # <<>> THEN RatNorm(RatMean(occ_ratios)) ELSE RatZero,
          occ_min |-> IF occ_ratios # <<>> THEN RatNorm(RatMinSeq(occ_ratios)) ELSE RatZero,
          occ_max |-> IF occ_ratios # <<>> THEN RatNorm(RatMaxSeq(occ_ratios)) ELSE RatZero,
          service_compliance |-> IF env.assignments # <<>> THEN RatOne ELSE RatZero ]

-----------------------------------------------------------------------------
(* Objects.  A name is bound to the caller's object or to a private one; a  *)
(* write through a name lands on the object the name is bound to.           *)

Caller == "caller"
Private == "private"

\* A copy that hands back the frame it was called on.
DataFrameAlias(obj) == obj

\* DataFrame.copy(): a new frame, whatever frame it is called on.
DataFrameCopy(obj) == Private

\* dict(d): a new dict, whatever dict it is called on.
DictCopy(obj) == Private

\* What the caller's object holds after a write of value through a name
\* bound to target.
Written(target, original, value) == IF target = Caller THEN value ELSE original

\* compute_occupancy_summary line 9: the frame with an occ_ratio column
\* (pandas divides by a zero capacity without raising).
WithOccRatio(facs) ==
    [ k \in 1..Len(facs) |->
        [ id_rs |-> facs[k].id_rs, pos |-> facs[k].pos,
          capacity_tt |-> facs[k].capacity_tt, occupied_tt |-> facs[k].occupied_tt,
          services |-> facs[k].services, wilayah |-> facs[k].wilayah,
          occ_ratio |-> <<facs[k].occupied_tt, facs[k].capacity_tt>> ] ]

-----------------------------------------------------------------------------
(* simulate.py: the three perturbations and run_scenario's arithmetic.      *)

\* max(0.0, min(1.0, x)), lines 27 and 80.
Clamp01(x) == IF RatLt(x, RatZero) THEN RatZero ELSE IF RatLt(RatOne, x) THEN RatOne ELSE x

\* Series.round(): the ratio num/den rounded to the nearest integer, a half
\* to the even neighbour.
RoundHalfEven(num, den) ==
    LET q == num \div den
        r == num % den
    IN  IF 2 * r < den THEN q
        ELSE IF 2 * r > den THEN q + 1
        ELSE IF q % 2 = 0 THEN q ELSE q + 1

\* apply_capacity_drop lines 30-34: the rows the mask selects.  The frame has
\* a wilayah column and no kelas column.
CapacityDropMask(rs, wilayah) ==
    wilayah = Absent \/ LowerStr(rs.wilayah) = LowerStr(Get(wilayah, <<>>))

\* A reduction without the floor of 1.
DroppedCapacityNoFloor(capacity_tt, drop_pct) ==
    RoundHalfEven(capacity_tt * (drop_pct[2] - drop_pct[1]), drop_pct[2])

\* apply_capacity_drop line 37, for one selected row.
DroppedCapacity(capacity_tt, drop_pct) ==
    Max(1, RoundHalfEven(capacity_tt * (drop_pct[2] - drop_pct[1]), drop_pct[2]))

\* apply_capacity_drop(facilities_df, drop_pct, wilayah), lines 27-41, with
\* kelas None.
ApplyCapacityDrop(facs, drop_pct, wilayah) ==
    [ k \in 1..Len(facs) |->
        LET dropped == IF CapacityDropMask(facs[k], wilayah)
                       THEN DroppedCapacity(facs[k].capacity_tt, Clamp01(drop_pct))
                       ELSE facs[k].capacity_tt
        IN  [ facs[k] EXCEPT !.capacity_tt = IF facs[k].occupied_tt > dropped
                                             THEN facs[k].occupied_tt ELSE dropped ] ]

\* apply_policy_change(config, radius_km, max_load, target_occupancy), lines
\* 53-66; a parameter is Absent (None) or Some(value).
ApplyPolicyChange(cfg, radius_km, max_load, target_occupancy) ==
    [ cfg EXCEPT
        !.constraints = [ radius_km |-> IF radius_km # Absent THEN radius_km
                                        ELSE cfg.constraints.radius_km,
                          max_load |-> IF max_load # Absent THEN max_load
                                       ELSE cfg.constraints.max_load ],
        !.policy = [ target_occupancy |-> IF target_occupancy # Absent THEN target_occupancy
                                          ELSE cfg.policy.target_occupancy ] ]

\* apply_demand_spike lines 83-87: the rows of the subset, in frame order.
\* The patient frame has no wilayah column, so wilayah is None here.
RECURSIVE SpikeSubset(_, _)
SpikeSubset(ps, kasus) ==
    IF ps = <<>> THEN <<>>
    ELSE IF kasus = Absent
            \/ IsSubstring(LowerStr(Get(kasus, <<>>)), LowerStr(Head(ps).kasus))
         THEN <<Head(ps)>> \o SpikeSubset(Tail(ps), kasus)
         ELSE SpikeSubset(Tail(ps), kasus)

\* A count without the floor of 1.
NExtraNoFloor(n_subset, spike_pct) == (n_subset * spike_pct[1]) \div spike_pct[2]

\* apply_demand_spike line 92.
NExtra(n_subset, spike_pct) == Max(1, (n_subset * spike_pct[1]) \div spike_pct[2])

\* apply_demand_spike lines 97-102, for one sampled row.
SpikeRow(p, severity_shift) ==
    [ p EXCEPT !.severity = IF Abs(severity_shift) > 0 THEN p.severity + severity_shift
                            ELSE p.severity,
               !.id_pasien = p.id_pasien \o <<"_SPK">> ]

\* apply_demand_spike(patients_df, spike_pct, None, kasus, severity_shift),
\* lines 80-104.  sample is what subset.sample(n_extra, replace=True) drew:
\* n_extra positions of the subset.
ApplyDemandSpike(ps, spike_pct, kasus, severity_shift, sample) ==
    IF SpikeSubset(ps, kasus) = <<>> \/ ~ RatLt(RatZero, Clamp01(spike_pct)) THEN ps
    ELSE ps \o [ k \in 1..Len(sample) |->
                   SpikeRow(SpikeSubset(ps, kasus)[sample[k]], severity_shift) ]

\* What sample(n=n_extra, replace=True) can return.
Samples(ps, spike_pct, kasus) ==
    IF SpikeSubset(ps, kasus) = <<>> \/ ~ RatLt(RatZero, Clamp01(spike_pct)) THEN {<<>>}
    ELSE [ 1..NExtra(Len(SpikeSubset(ps, kasus)), Clamp01(spike_pct))
           -> 1..Len(SpikeSubset(ps, kasus)) ]

\* run_scenario line 189: after - before for every key.  The difference of
\* two load balance indexes is kept as 0 or "changed" (see LoadBalanceIndex).
Unchanged == <<0, 1>>
Changed == <<1, 0>>
DeltaOf(after_metrics, base_metrics) ==
    [ total_patients |-> <<after_metrics.total_patients - base_metrics.total_patients, 1>>,
      total_assigned |-> <<after_metrics.total_assigned - base_metrics.total_assigned, 1>>,
      total_unassigned |->
          <<after_metrics.total_unassigned - base_metrics.total_unassigned, 1>>,
      avg_distance_km |-> RatSub(after_metrics.avg_distance_km, base_metrics.avg_distance_km),
      unmet_ratio |-> RatSub(after_metrics.unmet_ratio, base_metrics.unmet_ratio),
      load_balance_index |->
          IF after_metrics.load_balance_index = base_metrics.load_balance_index
          THEN Unchanged ELSE Changed,
      occ_mean |-> RatSub(after_metrics.occ_mean, base_metrics.occ_mean),
      occ_min |-> RatSub(after_metrics.occ_min, base_metrics.occ_min),
      occ_max |-> RatSub(after_metrics.occ_max, base_metrics.occ_max),
      service_compliance |->
          RatSub(after_metrics.service_compliance, base_metrics.service_compliance) ]

\* summarize_fac_changes line 111: the last entry of before_fac with this id,
\* or 0.0.
RECURSIVE OccBefore(_, _)
OccBefore(before_fac, hid) ==
    IF before_fac = <<>> THEN RatZero
    ELSE IF before_fac[Len(before_fac)].hospital_id = hid
         THEN before_fac[Len(before_fac)].occ_ratio
         ELSE OccBefore(SubSeq(before_fac, 1, Len(before_fac) - 1), hid)

\* list.sort(key=abs(delta_occ), reverse=True) is stable: a row goes behind
\* every row whose key is not smaller.
RECURSIVE InsertByChange(_, _)
InsertByChange(sorted, row) ==
    IF sorted = <<>> THEN <<row>>
    ELSE IF RatLt(RatAbs(Head(sorted).delta_occ), RatAbs(row.delta_occ))
         THEN <<row>> \o sorted
         ELSE <<Head(sorted)>> \o InsertByChange(Tail(sorted), row)

RECURSIVE SortByChange(_)
SortByChange(rows) ==
    IF rows = <<>> THEN <<>>
    ELSE InsertByChange(SortByChange(SubSeq(rows, 1, Len(rows) - 1)), rows[Len(rows)])

TopK == 5

\* summarize_fac_changes(before_fac, after_fac, top_k=5), lines 111-126.
SummarizeFacChanges(before_fac, after_fac) ==
    LET rows == [ k \in 1..Len(after_fac) |->
                    [ hospital_id |-> after_fac[k].hospital_id,
                      occ_before |-> OccBefore(before_fac, after_fac[k].hospital_id),
                      occ_after |-> after_fac[k].occ_ratio,
                      delta_occ |-> RatSub(after_fac[k].occ_ratio,
                                           OccBefore(before_fac, after_fac[k].hospital_id)) ] ]
    IN  SubSeq(SortByChange(rows), 1, Min(TopK, Len(rows)))

-----------------------------------------------------------------------------
(* explain.py: _extract_config, _compute_cost and _feasible_candidates.     *)

\* explain.py _extract_config(config): the weights and the constraints, with
\* the defaults of lines 9-14.
ExplainExtractConfig(cfg) ==
    [ weights |-> [ wd |-> Get(cfg.weights.wd, 6),
                    wo |-> Get(cfg.weights.wo, 3),
                    wf |-> Get(cfg.weights.wf, 1) ],
      constraints |-> [ radius_km |-> Get(cfg.constraints.radius_km, 50),
                        max_load |-> Get(cfg.constraints.max_load, <<1, 1>>),
                        target_occupancy |-> Get(cfg.policy.target_occupancy, 7) ] ]

\* explain.py _compute_cost(distance_km, occ_ratio, weights, constraints)
ExplainComputeCost(distance_km, occ, cap, weights, constraints) ==
    CostOf(distance_km, occ, cap, weights,
           constraints.target_occupancy, constraints.radius_km)

\* Lines 34-43: the facility row passes the four checks.
CandidatePasses(patient, rs, constraints) ==
    /\ rs.capacity_tt > 0
    /\ RatLt(<<rs.occupied_tt, rs.capacity_tt>>, constraints.max_load)
    /\ (LowerStr(patient.kasus) = <<>>
          \/ IsSubstring(LowerStr(patient.kasus), LowerStr(PyStr(rs.services))))
    /\ Haversine(patient.pos, rs.pos) <= constraints.radius_km

\* Lines 45-50: the row appended for a facility that passed.
CandidateRow(patient, rs, ex) ==
    [ hospital_id |-> rs.id_rs,
      distance_km |-> Haversine(patient.pos, rs.pos),
      occ_ratio |-> <<rs.occupied_tt, rs.capacity_tt>>,
      cost |-> ExplainComputeCost(Haversine(patient.pos, rs.pos), rs.occupied_tt,
                                  rs.capacity_tt, ex.weights, ex.constraints),
      services |-> LowerStr(PyStr(rs.services)) ]

\* One pass of the loop of lines 33-50 on the list rows.
CandidateVisit(rows, patient, rs, ex) ==
    IF CandidatePasses(patient, rs, ex.constraints)
    THEN Append(rows, CandidateRow(patient, rs, ex))
    ELSE rows

\* list.sort(key=cost) is stable: a row goes behind every row that does not
\* cost more.
RECURSIVE InsertByCost(_, _)
InsertByCost(sorted, row) ==
    IF sorted = <<>> THEN <<row>>
    ELSE IF row.cost < Head(sorted).cost THEN <<row>> \o sorted
         ELSE <<Head(sorted)>> \o InsertByCost(Tail(sorted), row)

\* A sort that leaves the rows as they are.
KeepOrder(rows) == rows

\* Line 51: rows.sort(key=lambda r: r["cost"]).
RECURSIVE SortByCost(_)
SortByCost(rows) ==
    IF rows = <<>> THEN <<>>
    ELSE InsertByCost(SortByCost(SubSeq(rows, 1, Len(rows) - 1)), rows[Len(rows)])

RECURSIVE CandidateLoop(_, _, _, _)
CandidateLoop(rows, patient, facs, ex) ==
    IF facs = <<>> THEN rows
    ELSE CandidateLoop(CandidateVisit(rows, patient, Head(facs), ex), patient, Tail(facs), ex)

\* _feasible_candidates(patient, facilities_df, config), as a function.
FeasibleCandidates(patient, facs, cfg) ==
    SortByCost(CandidateLoop(<<>>, patient, facs, ExplainExtractConfig(cfg)))

-----------------------------------------------------------------------------
(* The inputs of a request. *)

PatientId(k) == <<"P", k>>

ICU == <<"I", "C", "U">>
UGD == <<"U", "G", "D">>

\* Patient frames: rows k = 1..n with id_pasien P<k>, each row from rows.
PatientFrames(rows) ==
    UNION { { [ k \in 1..n |-> [ id_pasien |-> PatientId(k), pos |-> f[k].pos,
                                kasus |-> f[k].kasus, severity |-> f[k].severity ] ]
              : f \in [1..n -> rows] } : n \in 0..MaxPatients }

\* Facility frames: none, H1, or H1 and H2 (ORDER BY id_rs), H1 two steps
\* (20 km) north of H2, in the regions U and D, each with a (capacity,
\* occupied, services) from rows.  The frames have the columns that
\* load_facilities_df selects (data_access.py lines 72-82), so no kelas.
FacilityFrames(rows) ==
    {<<>>}
    \cup { << [ id_rs |-> "H1", pos |-> 2, capacity_tt |-> a.capacity_tt,
                occupied_tt |-> a.occupied_tt, services |-> a.services,
                wilayah |-> <<"U">> ] >> : a \in rows }
    \cup { << [ id_rs |-> "H1", pos |-> 2, capacity_tt |-> ab[1].capacity_tt,
                occupied_tt |-> ab[1].occupied_tt, services |-> ab[1].services,
                wilayah |-> <<"U">> ],
              [ id_rs |-> "H2", pos |-> 0, capacity_tt |-> ab[2].capacity_tt,
                occupied_tt |-> ab[2].occupied_tt, services |-> ab[2].services,
                wilayah |-> <<"D">> ] >>
           : ab \in rows \X rows }

Solvers == {"greedy", "hungarian", "mcmf", "lp"}

ConfigOf(solver, radius_km, max_load, target) ==
    [ solver |-> Some(solver),
      weights |-> [wd |-> Some(6), wo |-> Some(3), wf |-> Some(1)],
      constraints |-> [radius_km |-> Some(radius_km), max_load |-> Some(max_load)],
      policy |-> [target_occupancy |-> Some(target)] ]

\* Inputs that vary beds and load: any capacity up to MaxCap, an occupancy up
\* to one above it, max_load 0.5 or 1.0, a radius of 10 or 20 km, patients at
\* H1 or half way between H1 and H2; every occupied bed is penalised
\* (target_occupancy 0).
CapacityInputs ==
    [ patients : PatientFrames([pos : {1, 2}, kasus : {<<>>}, severity : {1, 2}]),
      facilities : FacilityFrames(
          { r \in [capacity_tt : 0..MaxCap, occupied_tt : 0..(MaxCap + 1),
                   services : {[kind |-> "list", items |-> <<ICU>>]}]
              : r.occupied_tt <= r.capacity_tt + 1 }),
      config : { ConfigOf(sv, r, ml, 0) :
                   sv \in Solvers, r \in {10, 20}, ml \in {<<1, 2>>, <<1, 1>>} } ]

\* Inputs that vary the case, the services and the radius: one free bed per
\* facility, patients at H1 or at H2; the default target_occupancy 0.7.
ServiceInputs ==
    [ patients : PatientFrames([pos : {0, 2}, kasus : {<<>>, ICU, <<"c", "u">>, UGD},
                                severity : {1}]),
      facilities : FacilityFrames(
          [capacity_tt : {1}, occupied_tt : {0},
           services : { [kind |-> "list", items |-> <<ICU>>],
                        [kind |-> "list", items |-> <<UGD, ICU>>],
                        [kind |-> "str", text |-> UGD \o <<",", " ">> \o ICU] }]),
      config : { ConfigOf(sv, r, <<1, 1>>, 7) : sv \in Solvers, r \in {10, 20} } ]

NoResult == [kind |-> "none"]
NoHung == [n |-> 0]
NoSim == [step |-> "none"]
NoScenario == [type |-> "none"]

-----------------------------------------------------------------------------
(* POST /match: endpoints/matching.py run_matching hands the frames and the *)
(* configuration it loaded to run_match (lines 46-56); nothing runs between *)
(* the load and the call.  The actions below are run_match and the solver   *)
(* it calls, one action per branch or loop pass.                            *)

Init ==
    /\ \E inp \in CapacityInputs \cup ServiceInputs :
         /\ patients = inp.patients
         /\ facilities = inp.facilities
         /\ config = inp.config
    /\ pc = "run_match"
    /\ queue = <<>>
    /\ capacity_map = <<>>
    /\ assignments = <<>>
    /\ hung = NoHung
    /\ result = NoResult
    /\ scenario = NoScenario
    /\ sim = NoSim
    /\ tie_order \in (IF HasTie(patients) THEN TieOrders ELSE {"kept"})

Inputs == <<patients, facilities, config, scenario, sim>>

\* run_match lines 254-263: an empty frame returns at once.
RunMatchEmpty ==
    /\ pc = "run_match"
    /\ (patients = <<>> \/ facilities = <<>>)
    /\ result' = [kind |-> "ok", envelope |-> EmptyEnvelope(Len(patients))]
    /\ pc' = "done"
    /\ UNCHANGED <<Inputs, queue, capacity_map, assignments, hung>>
    /\ UNCHANGED tie_order

UsesOptimal(cfg) == ExtractConfig(cfg).solver \in {"hungarian", "mcmf"}

\* run_match lines 268-269 and 293, greedy_match lines 107-139: the call of
\* greedy_match up to the first pass of its patient loop.
GreedyStart ==
    /\ pc = "run_match"
    /\ patients # <<>> /\ facilities # <<>>
    /\ ~ UsesOptimal(config)
    /\ queue' = SortBySeverityDesc(patients)
    /\ capacity_map' = CapacityMapOf(facilities)
    /\ assignments' = <<>>
    /\ pc' = "greedy"
    /\ facilities' = Written(DataFrameCopy(Caller), facilities, WithOccRatio(facilities))
    /\ UNCHANGED <<patients, config, scenario, sim, hung, result>>
    /\ UNCHANGED tie_order

\* greedy_match lines 141-202: one pass of the patient loop.
GreedyStep ==
    /\ pc = "greedy"
    /\ queue # <<>>
    /\ LET st == GreedyPatient([capacity_map |-> capacity_map, assignments |-> assignments],
                               Head(queue), facilities, ExtractConfig(config))
       IN  /\ capacity_map' = st.capacity_map
           /\ assignments' = st.assignments
    /\ queue' = Tail(queue)
    /\ UNCHANGED <<Inputs, pc, hung, result>>
    /\ UNCHANGED tie_order

\* greedy_match lines 204-239: the summary, the snapshot and the return.
GreedyReturn ==
    /\ pc = "greedy"
    /\ queue = <<>>
    /\ result' = [ kind |-> "ok",
                   envelope |-> [ summary |-> SummaryOf(Len(patients), assignments),
                                  assignments |-> assignments,
                                  facilities |-> GreedySnapshot(facilities, capacity_map) ] ]
    /\ pc' = "done"
    /\ UNCHANGED <<Inputs, queue, capacity_map, assignments, hung>>
    /\ UNCHANGED tie_order

SlotsNow == BuildCapacityExpandedSlots(facilities, ExtractConfig(config).constraints)

MatrixNow ==
    BuildCostMatrix(patients, SlotsNow, ExtractConfig(config).weights,
                    ExtractConfig(config).constraints)

\* run_match lines 271-290 with solve_hungarian_with_capacity lines 259-261:
\* no slot, so the solver returns ([], []) and run_match its envelope.
OptimalNoSlot ==
    /\ pc = "run_match"
    /\ patients # <<>> /\ facilities # <<>>
    /\ UsesOptimal(config)
    /\ SlotsNow = <<>>
    /\ result' = [ kind |-> "ok",
                   envelope |-> [ summary |-> SummaryOf(Len(patients), <<>>),
                                  assignments |-> <<>>,
                                  facilities |-> <<>> ] ]
    /\ pc' = "done"
    /\ facilities' = Written(DataFrameCopy(Caller), facilities, WithOccRatio(facilities))
    /\ UNCHANGED <<patients, config, scenario, sim, queue, capacity_map, assignments, hung>>
    /\ UNCHANGED tie_order

\* solve_hungarian_with_capacity line 264 into _hungarian_square lines
\* 121-154: the matrix is built, padded to a square, reduced, and the first
\* zeros are starred.
OptimalStart ==
    /\ pc = "run_match"
    /\ patients # <<>> /\ facilities # <<>>
    /\ UsesOptimal(config)
    /\ SlotsNow # <<>>
    /\ hung' = HungInit(IF Len(patients) = Len(SlotsNow) THEN MatrixNow
                        ELSE PadSquare(MatrixNow, Len(patients), Len(SlotsNow)))
    /\ pc' = "hungarian"
    /\ facilities' = Written(DataFrameCopy(Caller), facilities, WithOccRatio(facilities))
    /\ UNCHANGED <<patients, config, scenario, sim, queue, capacity_map, assignments, result>>
    /\ UNCHANGED tie_order

\* _cover_zeros lines 161-216: one pass of the inner loop.
HungarianStep ==
    /\ pc = "hungarian"
    /\ ~ HungDone(hung)
    /\ hung' = HungStep(hung)
    /\ UNCHANGED <<Inputs, pc, queue, capacity_map, assignments, result>>
    /\ UNCHANGED tie_order

\* _cover_zeros lines 217-224, linear_sum_assignment lines 246-247,
\* solve_hungarian_with_capacity lines 266-321 and run_match lines 278-290.
OptimalReturn ==
    /\ pc = "hungarian"
    /\ HungDone(hung)
    /\ LET pairs == IF Len(patients) = Len(SlotsNow) THEN ExtractAssignment(hung)
                    ELSE MaskPairs(ExtractAssignment(hung), Len(patients), Len(SlotsNow))
           sol == DecodeSolution(pairs, MatrixNow, patients, facilities, SlotsNow)
       IN  result' = [ kind |-> "ok",
                       envelope |-> [ summary |-> SummaryOf(Len(patients), sol.assignments),
                                      assignments |-> sol.assignments,
                                      facilities |-> sol.facilities ] ]
    /\ pc' = "done"
    /\ UNCHANGED <<Inputs, queue, capacity_map, assignments, hung>>
    /\ UNCHANGED tie_order

Next ==
    \/ RunMatchEmpty
    \/ GreedyStart
    \/ GreedyStep
    \/ GreedyReturn
    \/ OptimalNoSlot
    \/ OptimalStart
    \/ HungarianStep
    \/ OptimalReturn

Spec == Init /\ [][Next]_vars

\* The stepwise run returns what the function returns.
StepwiseAgrees == pc = "done" => result.envelope = RunMatch(patients, facilities, config)

-----------------------------------------------------------------------------
(* Two POST /match requests on the same data with a greedy configuration:   *)
(* run_matching keeps the first result (state.set_last_run, endpoints/      *)
(* matching.py lines 58-63) and the second request runs run_match again.    *)

InitAgain == Init /\ ~ UsesOptimal(config)

\* The second request: run_match is called with the same frames and
\* configuration, its local variables fresh.
RunAgain ==
    /\ pc = "done"
    /\ sim = NoSim
    /\ sim' = [step |-> "first", first |-> result]
    /\ result' = NoResult
    /\ queue' = <<>>
    /\ capacity_map' = <<>>
    /\ assignments' = <<>>
    /\ pc' = "run_match"
    /\ UNCHANGED <<patients, facilities, config, scenario, hung>>
    /\ UNCHANGED tie_order

NextAgain ==
    \/ RunMatchEmpty
    \/ GreedyStart
    \/ GreedyStep
    \/ GreedyReturn
    \/ RunAgain

SpecAgain == InitAgain /\ [][NextAgain]_vars

-----------------------------------------------------------------------------
(* build_explanation_for_patient's call of _feasible_candidates (explain.py *)
(* line 75) for one patient of the loaded frame, the loaded facilities and  *)
(* the stored configuration: one action per pass of its loop, one for the   *)
(* sort and the return.                                                     *)

InitCandidates ==
    /\ \E inp \in CapacityInputs \cup ServiceInputs :
         /\ inp.patients # <<>>
         /\ ExtractConfig(inp.config).solver = "greedy"
         /\ patients = inp.patients
         /\ facilities = inp.facilities
         /\ config = inp.config
         /\ \E i \in 1..Len(inp.patients) : sim = [step |-> "explain", patient |-> i]
    /\ pc = "candidates"
    /\ queue = facilities
    /\ capacity_map = <<>>
    /\ assignments = <<>>
    /\ hung = NoHung
    /\ result = NoResult
    /\ scenario = NoScenario
    /\ tie_order = "kept"

\* Lines 33-50: the loop visits the next facility row; queue holds the rows
\* still to visit and assignments the list rows.
CandidatesVisit ==
    /\ pc = "candidates"
    /\ queue # <<>>
    /\ assignments' = CandidateVisit(assignments, patients[sim.patient], Head(queue),
                                     ExplainExtractConfig(config))
    /\ queue' = Tail(queue)
    /\ UNCHANGED <<Inputs, pc, capacity_map, hung, result>>
    /\ UNCHANGED tie_order

\* Lines 51-52: the sort and the return.
CandidatesReturn ==
    /\ pc = "candidates"
    /\ queue = <<>>
    /\ result' = [kind |-> "ok", rows |-> SortByCost(assignments)]
    /\ pc' = "done"
    /\ UNCHANGED <<Inputs, queue, capacity_map, assignments, hung>>
    /\ UNCHANGED tie_order

NextCandidates == CandidatesVisit \/ CandidatesReturn

SpecCandidates == InitCandidates /\ [][NextCandidates]_vars

-----------------------------------------------------------------------------
(* linear_sum_assignment on its own (solver.py lines 230-247): any m x n    *)
(* matrix of non-negative costs, the sentinel INF among them.  One action   *)
(* for the entry into _hungarian_square, HungarianStep for each pass of the *)
(* inner loop, one action for the extraction and the mask.                  *)

\* The largest number of rows and of columns of a matrix.
MaxDim == 3

\* The values of a matrix entry.
CostValues == {0, 1, 2, INF}

CostMatrices ==
    UNION { [ 1..m -> [ 1..n -> CostValues ] ] : m \in 1..MaxDim, n \in 1..MaxDim }

InitAssign ==
    /\ \E cost \in CostMatrices : sim = [step |-> "lsa", cost |-> cost]
    /\ patients = <<>>
    /\ facilities = <<>>
    /\ config = ConfigOf("hungarian", 10, <<1, 1>>, 0)
    /\ pc = "lsa"
    /\ queue = <<>>
    /\ capacity_map = <<>>
    /\ assignments = <<>>
    /\ hung = NoHung
    /\ result = NoResult
    /\ scenario = NoScenario
    /\ tie_order = "kept"

\* Lines 235-244 and 121-126: the square matrix, padded when m # n, reduced,
\* with its first stars and covers.
AssignStart ==
    /\ pc = "lsa"
    /\ LET m == Len(sim.cost)
           n == Len(sim.cost[1])
       IN  hung' = HungInit(IF m = n THEN sim.cost ELSE PadSquare(sim.cost, m, n))
    /\ pc' = "hungarian"
    /\ UNCHANGED <<Inputs, queue, capacity_map, assignments, result>>
    /\ UNCHANGED tie_order

\* Lines 218-224 and 246-247: the extraction, and the mask when m # n.
AssignReturn ==
    /\ pc = "hungarian"
    /\ HungDone(hung)
    /\ LET m == Len(sim.cost)
           n == Len(sim.cost[1])
       IN  result' = [ kind |-> "ok",
                       pairs |-> IF m = n THEN ExtractAssignment(hung)
                                 ELSE MaskPairs(ExtractAssignment(hung), m, n) ]
    /\ pc' = "done"
    /\ UNCHANGED <<Inputs, queue, capacity_map, assignments, hung>>
    /\ UNCHANGED tie_order

NextAssign == AssignStart \/ HungarianStep \/ AssignReturn

SpecAssign == InitAssign /\ [][NextAssign]_vars

-----------------------------------------------------------------------------
(* POST /simulate: endpoints/simulate.py loads the frames and the           *)
(* configuration and hands them with the request to run_scenario (lines     *)
(* 22-28).  The actions below are run_scenario, one per stage and branch.   *)

NoParams ==
    [ drop_pct |-> Absent, wilayah |-> Absent, kelas |-> Absent,
      radius_km |-> Absent, max_load |-> Absent, target_occupancy |-> Absent,
      spike_pct |-> Absent, kasus |-> Absent, severity_shift |-> Absent ]

\* The request bodies: the three scenario types with their parameters given
\* or left out, and two types run_scenario does not know.
Scenarios ==
    { [type |-> "capacity_drop", params |-> [NoParams EXCEPT !.drop_pct = d]] :
        d \in {Absent, Some(<<0, 1>>), Some(<<1, 2>>), Some(<<3, 2>>)} }
    \cup { [type |-> "capacity_drop",
            params |-> [NoParams EXCEPT !.drop_pct = Some(<<1, 2>>), !.wilayah = Some(<<"u">>)]],
           [type |-> "capacity_drop",
            params |-> [NoParams EXCEPT !.drop_pct = Some(<<1, 2>>), !.kelas = Some(<<"A">>)]] }
    \cup { [type |-> "policy_change",
            params |-> [NoParams EXCEPT !.radius_km = r, !.max_load = ml]] :
             r \in {Absent, Some(20)}, ml \in {Absent, Some(<<1, 2>>)} }
    \cup { [type |-> "policy_change", params |-> [NoParams EXCEPT !.target_occupancy = Some(7)]] }
    \cup { [type |-> "demand_spike", params |-> [NoParams EXCEPT !.spike_pct = s]] :
             s \in {Absent, Some(<<0, 1>>), Some(<<1, 2>>), Some(<<1, 1>>)} }
    \cup { [type |-> "demand_spike",
            params |-> [NoParams EXCEPT !.spike_pct = Some(<<1, 1>>),
                                        !.kasus = Some(<<"i", "c">>)]],
           [type |-> "demand_spike",
            params |-> [NoParams EXCEPT !.spike_pct = Some(<<1, 1>>),
                                        !.severity_shift = Some(1)]],
           [type |-> "demand_spike",
            params |-> [NoParams EXCEPT !.spike_pct = Some(<<1, 1>>),
                                        !.wilayah = Some(<<"u">>)]] }
    \cup { [type |-> "surge", params |-> NoParams], [type |-> "", params |-> NoParams] }

\* The loaded data of a simulation: an ICU patient half way between the
\* facilities or a UGD patient at H1, any capacity up to MaxCap with an
\* occupancy up to one above it, the greedy or the Hungarian solver.
ScenarioInputs ==
    [ patients : PatientFrames({ [pos |-> 1, kasus |-> ICU, severity |-> 1],
                                 [pos |-> 2, kasus |-> UGD, severity |-> 1] }),
      facilities : FacilityFrames(
          { r \in [capacity_tt : 0..MaxCap, occupied_tt : 0..(MaxCap + 1),
                   services : {[kind |-> "list", items |-> <<UGD, ICU>>]}]
              : r.occupied_tt <= r.capacity_tt + 1 }),
      config : { ConfigOf(sv, 10, <<1, 1>>, 0) : sv \in {"greedy", "hungarian"} },
      scenario : Scenarios ]

InitSim ==
    /\ \E inp \in ScenarioInputs :
         /\ patients = inp.patients
         /\ facilities = inp.facilities
         /\ config = inp.config
         /\ scenario = inp.scenario
    /\ pc = "run_scenario"
    /\ queue = <<>>
    /\ capacity_map = <<>>
    /\ assignments = <<>>
    /\ hung = NoHung
    /\ result = NoResult
    /\ sim = NoSim
    /\ tie_order \in (IF patients = <<>> THEN {"kept"} ELSE TieOrders)

Request == <<patients, facilities, config, scenario>>
Matcher == <<queue, capacity_map, assignments, hung>>

\* run_scenario lines 142-152: the baseline run and the working copies.
\* greedy_match adds its occ_ratio column to compute_occupancy_summary's copy
\* of the frame (matching.py line 125, supply.py lines 8-9).
ScenarioBaseline ==
    /\ pc = "run_scenario"
    /\ LET base_result == GreedyMatch(patients, facilities, config)
       IN  sim' = [ step |-> "baseline",
                    base_result |-> base_result,
                    base_metrics |-> ComputeMetrics(base_result),
                    new_fac |-> facilities,
                    new_pat |-> patients,
                    new_cfg |-> config,
                    fac_obj |-> DataFrameCopy(Caller),
                    pat_obj |-> DataFrameCopy(Caller),
                    cfg_obj |-> DictCopy(Caller) ]
    /\ facilities' = Written(DataFrameCopy(Caller), facilities, WithOccRatio(facilities))
    /\ pc' = "perturb"
    /\ UNCHANGED <<patients, config, scenario, Matcher, result>>
    /\ UNCHANGED tie_order

\* What the branch of lines 154-177 raises, if anything: ValueError for a
\* type that is none of the three, AttributeError where a filter names a
\* column the loaded frame does not have (DataFrame.get returns None).
ScenarioError(s) ==
    IF s.type \notin {"capacity_drop", "policy_change", "demand_spike"} THEN "ValueError"
    ELSE IF s.type = "capacity_drop" /\ s.params.kelas # Absent THEN "AttributeError"
    ELSE IF s.type = "demand_spike" /\ s.params.wilayah # Absent THEN "AttributeError"
    ELSE "none"

\* run_scenario lines 154-160.  apply_capacity_drop writes the capacities of
\* its own copy of the frame it is given (lines 28, 37-39).
ScenarioCapacityDrop ==
    /\ pc = "perturb"
    /\ scenario.type = "capacity_drop"
    /\ ScenarioError(scenario) = "none"
    /\ LET df == ApplyCapacityDrop(sim.new_fac, Get(scenario.params.drop_pct, RatZero),
                                   scenario.params.wilayah)
       IN  /\ sim' = [ sim EXCEPT !.step = "perturbed",
                                  !.new_fac = df,
                                  !.fac_obj = DataFrameCopy(sim.fac_obj) ]
           /\ facilities' = Written(DataFrameCopy(sim.fac_obj), facilities, df)
    /\ pc' = "after"
    /\ UNCHANGED <<patients, config, scenario, Matcher, result>>
    /\ UNCHANGED tie_order

\* run_scenario lines 161-167.  apply_policy_change writes the keys of its
\* own dict(config) and of the dict() copies of the nested dicts (lines
\* 53-65).
ScenarioPolicyChange ==
    /\ pc = "perturb"
    /\ scenario.type = "policy_change"
    /\ LET new_cfg == ApplyPolicyChange(sim.new_cfg, scenario.params.radius_km,
                                        scenario.params.max_load,
                                        scenario.params.target_occupancy)
       IN  /\ sim' = [ sim EXCEPT !.step = "perturbed",
                                  !.new_cfg = new_cfg,
                                  !.cfg_obj = DictCopy(sim.cfg_obj) ]
           /\ config' = Written(DictCopy(sim.cfg_obj), config, new_cfg)
    /\ pc' = "after"
    /\ UNCHANGED <<patients, facilities, scenario, Matcher, result>>
    /\ UNCHANGED tie_order

\* run_scenario lines 168-175.  apply_demand_spike writes the severity and the
\* id of the rows of extra, a frame that sample() made, and returns a frame
\* that concat made (lines 94-104).
ScenarioDemandSpike ==
    /\ pc = "perturb"
    /\ scenario.type = "demand_spike"
    /\ ScenarioError(scenario) = "none"
    /\ \E sample \in Samples(sim.new_pat, Get(scenario.params.spike_pct, RatZero),
                             scenario.params.kasus) :
         sim' = [ sim EXCEPT !.step = "perturbed",
                             !.new_pat = ApplyDemandSpike(sim.new_pat,
                                             Get(scenario.params.spike_pct, RatZero),
                                             scenario.params.kasus,
                                             Get(scenario.params.severity_shift, 0),
                                             sample),
                             !.pat_obj = DataFrameCopy(sim.pat_obj) ]
    /\ pc' = "after"
    /\ UNCHANGED <<Request, Matcher, result>>
    /\ UNCHANGED tie_order

\* A message that does not say which type was asked for.
ErrorDetailWithoutType(s) ==
    IF ScenarioError(s) = "ValueError" THEN <<"Tipe skenario tidak dikenali: ">>
    ELSE <<"Simulation failed: ", "'NoneType' object has no attribute 'astype'">>

\* The detail of the HTTP error: str(ve) of line 177's ValueError, which ends
\* with s_type, or the endpoint's "Simulation failed: <e>" (endpoints/
\* simulate.py lines 31 and 33).
ErrorDetail(s) ==
    IF ScenarioError(s) = "ValueError" THEN <<"Tipe skenario tidak dikenali: ", s.type>>
    ELSE <<"Simulation failed: ", "'NoneType' object has no attribute 'astype'">>

\* run_scenario line 177 or a raising filter, and the endpoint's handlers
\* (endpoints/simulate.py lines 30-33).
ScenarioRaises ==
    /\ pc = "perturb"
    /\ ScenarioError(scenario) # "none"
    /\ result' = [ kind |-> "error",
                   error |-> ScenarioError(scenario),
                   status_code |-> IF ScenarioError(scenario) = "ValueError"
                                   THEN 400 ELSE 500,
                   detail |-> ErrorDetail(scenario) ]
    /\ pc' = "done"
    /\ UNCHANGED <<Request, Matcher, sim>>
    /\ UNCHANGED tie_order

\* run_scenario lines 179-204: the second run, the deltas and the response.
ScenarioAfter ==
    /\ pc = "after"
    /\ LET after_result == GreedyMatch(sim.new_pat, sim.new_fac, sim.new_cfg)
           after_metrics == ComputeMetrics(after_result)
       IN  /\ sim' = [ step |-> "after",
                       base_result |-> sim.base_result,
                       base_metrics |-> sim.base_metrics,
                       new_fac |-> sim.new_fac,
                       new_pat |-> sim.new_pat,
                       new_cfg |-> sim.new_cfg,
                       fac_obj |-> sim.fac_obj,
                       pat_obj |-> sim.pat_obj,
                       cfg_obj |-> sim.cfg_obj,
                       after_result |-> after_result ]
           /\ facilities' = Written(DataFrameCopy(sim.fac_obj), facilities,
                                    WithOccRatio(sim.new_fac))
           /\ result' = [ kind |-> "ok",
                          response |->
                            [ scenario |-> scenario,
                              before |-> sim.base_metrics,
                              after |-> after_metrics,
                              delta |-> DeltaOf(after_metrics, sim.base_metrics),
                              top_facility_changes |->
                                  SummarizeFacChanges(sim.base_result.facilities,
                                                      after_result.facilities) ] ]
    /\ pc' = "done"
    /\ UNCHANGED <<patients, config, scenario, Matcher>>
    /\ UNCHANGED tie_order

NextSim ==
    \/ ScenarioBaseline
    \/ ScenarioCapacityDrop
    \/ ScenarioPolicyChange
    \/ ScenarioDemandSpike
    \/ ScenarioRaises
    \/ ScenarioAfter

SpecSim == InitSim /\ [][NextSim]_vars

-----------------------------------------------------------------------------
(* What the claims speak of. *)

Ex == ExtractConfig(config)
MaxLoad == Ex.constraints.max_load
RadiusKm == Ex.constraints.radius_km
Envelope == result.envelope

FacilityOf(id) == facilities[CHOOSE k \in 1..Len(facilities) : facilities[k].id_rs = id]
PatientOf(id) == patients[CHOOSE k \in 1..Len(patients) : patients[k].id_pasien = id]

\* The assignments before the k-th of asg that name the same hospital.
EarlierAt(asg, k) == Cardinality({ j \in 1..(k - 1) : asg[j].hospital_id = asg[k].hospital_id })

SumCosts(asg) == SumSeq([ k \in 1..Len(asg) |-> asg[k].cost ])

GreedyRan == pc \in {"greedy", "done"} /\ ~ UsesOptimal(config)

\* Section 4.2 of the design: a non-empty case must be, without regard to
\* letter case, a member or a substring of a service the facility offers.
ServiceOffered(services, case) ==
    \/ case = <<>>
    \/ /\ services.kind = "list"
       /\ \E k \in 1..Len(services.items) :
            IsSubstring(LowerStr(case), LowerStr(services.items[k]))
    \/ /\ services.kind = "str"
       /\ IsSubstring(LowerStr(case), LowerStr(services.text))

\* Patient p may go to facility f under both solvers' tests of service and
\* radius.
PairAllowed(p, f) ==
    /\ Haversine(p.pos, f.pos) <= RadiusKm
    /\ ServicesMatch(f.services, LowerStr(p.kasus))
    /\ (p.kasus = <<>> \/ IsSubstring(LowerStr(p.kasus), LowerStr(PyStr(f.services))))

-----------------------------------------------------------------------------
(* C1 *)

\* C1 (as claimed): during and after a greedy_match run, a facility that the
\* run has assigned a patient to, and whose input occupancy ratio was below
\* max_load, has occupied_tt / capacity_tt <= max_load.
C1_GreedyNeverOverflows ==
    GreedyRan =>
      \A k \in 1..Len(facilities) :
        LET f == facilities[k] IN
        ( /\ CountFor(assignments, f.id_rs) >= 1
          /\ RatLt(<<f.occupied_tt, f.capacity_tt>>, MaxLoad) )
        => RatLe(<<capacity_map[f.id_rs].occupied_tt, capacity_map[f.id_rs].capacity_tt>>,
                 MaxLoad)

-----------------------------------------------------------------------------
(* C2 *)

\* C2: every assignment of a greedy_match run records as occ_before the
\* input occupancy plus the earlier assignments of the run to that facility,
\* over the capacity, which is strictly below max_load, and as occ_after that
\* count plus one over the capacity.
C2_GreedyUsesCurrentCounter ==
    GreedyRan =>
      \A k \in 1..Len(assignments) :
        LET a == assignments[k]
            f == FacilityOf(a.hospital_id)
            n == f.occupied_tt + EarlierAt(assignments, k)
        IN  /\ a.occ_before = <<n, f.capacity_tt>>
            /\ RatLt(a.occ_before, MaxLoad)
            /\ a.occ_after = <<n + 1, f.capacity_tt>>

\* A greedy run that assigned a second patient to a facility it had already
\* assigned one to.
C2_Witness ==
    /\ GreedyRan /\ pc = "done"
    /\ \E k \in 1..Len(assignments) : EarlierAt(assignments, k) >= 1

-----------------------------------------------------------------------------
(* C3 *)

\* C3: in every envelope run_match returns, total_assigned + total_unassigned
\* = total_patients, total_assigned is the length of the assignments list and
\* total_patients the number of input patients.
C3_SummaryCounts ==
    pc = "done" =>
      /\ Envelope.summary.total_assigned + Envelope.summary.total_unassigned
           = Envelope.summary.total_patients
      /\ Envelope.summary.total_assigned = Len(Envelope.assignments)
      /\ Envelope.summary.total_patients = Len(patients)

\* The optimal solver returned with a patient assigned and a patient left.
C3_Witness ==
    /\ pc = "done" /\ UsesOptimal(config)
    /\ Envelope.summary.total_assigned >= 1
    /\ Envelope.summary.total_unassigned >= 1

-----------------------------------------------------------------------------
(* C4 *)

\* C4: every assignment of a returned envelope, whichever solver made it,
\* pairs a patient with a facility within radius_km of the patient that
\* offers the patient's case; so a patient no facility satisfies is in no
\* assignment.
C4_AssignmentsAreFeasible ==
    pc = "done" =>
      \A k \in 1..Len(Envelope.assignments) :
        LET a == Envelope.assignments[k]
            p == PatientOf(a.patient_id)
            f == FacilityOf(a.hospital_id)
        IN  /\ Haversine(p.pos, f.pos) <= RadiusKm
            /\ ServiceOffered(f.services, p.kasus)
            /\ a.distance_km = Haversine(p.pos, f.pos)

\* The optimal solver returned an assignment while some patient has no
\* facility in reach that offers the case.
C4_Witness ==
    /\ pc = "done" /\ UsesOptimal(config)
    /\ Len(Envelope.assignments) >= 1
    /\ \E i \in 1..Len(patients) : \A k \in 1..Len(facilities) :
         \/ Haversine(patients[i].pos, facilities[k].pos) > RadiusKm
         \/ ~ ServiceOffered(facilities[k].services, patients[i].kasus)

-----------------------------------------------------------------------------
(* C5 *)

GreedyHere == GreedyMatch(patients, facilities, config)

\* Both solvers work on the same feasible subgraph: the greedy run gives no
\* facility more patients than the optimal solver has slots for it.
GreedyWithinSlots ==
    \A k \in 1..Len(facilities) :
      CountFor(GreedyHere.assignments, facilities[k].id_rs)
        <= Len(SlotsOfFacility(facilities[k], MaxLoad))

\* C5 (as claimed): when the optimal solver and the greedy solver both assign
\* someone on the same input and the same feasible subgraph, the optimal
\* solver's costs sum to at most the greedy solver's.
C5_OptimalNeverCostsMore ==
    (pc = "done" /\ UsesOptimal(config)) =>
      ( ( /\ Len(Envelope.assignments) >= 1
          /\ Len(GreedyHere.assignments) >= 1
          /\ GreedyWithinSlots )
        => SumCosts(Envelope.assignments) <= SumCosts(GreedyHere.assignments) )

\* C5 (amended): when moreover both solvers assign the same number of
\* patients, the optimal solver's costs sum to at most the greedy solver's.
C5_OptimalNoWorseAtEqualSize ==
    (pc = "done" /\ UsesOptimal(config)) =>
      ( ( /\ Len(Envelope.assignments) >= 1
          /\ Len(Envelope.assignments) = Len(GreedyHere.assignments)
          /\ GreedyWithinSlots )
        => SumCosts(Envelope.assignments) <= SumCosts(GreedyHere.assignments) )

\* Both solvers assign the same number of patients, two or more, on the same
\* feasible subgraph, and the optimal solver's sum is strictly smaller.
C5_Witness ==
    /\ pc = "done" /\ UsesOptimal(config)
    /\ Len(Envelope.assignments) >= 2
    /\ Len(Envelope.assignments) = Len(GreedyHere.assignments)
    /\ GreedyWithinSlots
    /\ SumCosts(Envelope.assignments) < SumCosts(GreedyHere.assignments)

-----------------------------------------------------------------------------
(* C6 *)

\* k identical patients, one facility that all of them may go to, with
\* occupied < capacity, and max_load 1.0.
IdenticalBatch ==
    /\ Len(facilities) = 1 /\ Len(patients) >= 1
    /\ \A i \in 1..Len(patients) :
         /\ patients[i].pos = patients[1].pos
         /\ patients[i].kasus = patients[1].kasus
         /\ patients[i].severity = patients[1].severity
    /\ PairAllowed(patients[1], facilities[1])
    /\ facilities[1].occupied_tt < facilities[1].capacity_tt
    /\ MaxLoad = <<1, 1>>

\* C6: such a batch gets exactly min(k, capacity - occupied) assignments under
\* either solver, the rest is unassigned, and when one bed is free the one
\* assignment has occ_before = occupied / capacity and occ_after = 1.0.
C6_IdenticalBatchFillsFreeBeds ==
    (pc = "done" /\ IdenticalBatch) =>
      LET c == facilities[1].capacity_tt
          o == facilities[1].occupied_tt
      IN  /\ Len(Envelope.assignments) = Min(Len(patients), c - o)
          /\ Envelope.summary.total_unassigned = Len(patients) - Min(Len(patients), c - o)
          /\ (c - o = 1 =>
                /\ Envelope.assignments[1].occ_before = <<o, c>>
                /\ RatEq(Envelope.assignments[1].occ_after, <<1, 1>>))

\* The optimal solver returned for a batch of two or more that found one bed.
C6_Witness ==
    /\ pc = "done" /\ IdenticalBatch /\ UsesOptimal(config)
    /\ Len(patients) >= 2
    /\ facilities[1].capacity_tt - facilities[1].occupied_tt = 1
    /\ facilities[1].occupied_tt >= 1
    /\ Len(Envelope.assignments) = 1

-----------------------------------------------------------------------------
(* C7 *)

KpiKeys ==
    { "total_patients", "total_assigned", "total_unassigned", "avg_distance_km",
      "unmet_ratio", "load_balance_index", "occ_mean", "occ_min", "occ_max",
      "service_compliance" }

\* A request whose parameters are all neutral: a capacity drop of 0 with no
\* filter, a policy change with no field, a demand spike of 0.
NeutralScenario ==
    \/ /\ scenario.type = "capacity_drop"
       /\ scenario.params.drop_pct \in {Absent, Some(<<0, 1>>)}
       /\ scenario.params.wilayah = Absent /\ scenario.params.kelas = Absent
    \/ /\ scenario.type = "policy_change"
       /\ scenario.params.radius_km = Absent /\ scenario.params.max_load = Absent
       /\ scenario.params.target_occupancy = Absent
    \/ /\ scenario.type = "demand_spike"
       /\ scenario.params.spike_pct \in {Absent, Some(<<0, 1>>)}
       /\ scenario.params.wilayah = Absent

\* C7 (as claimed): run_scenario with a neutral request returns a delta of
\* exactly 0 for every KPI, whatever the facilities (capacity >= 0, any
\* occupied).
C7_NeutralScenarioHasZeroDelta ==
    (pc = "done" /\ result.kind = "ok" /\ NeutralScenario) =>
      \A key \in KpiKeys : result.response.delta[key][1] = 0

-----------------------------------------------------------------------------
(* C8 *)

\* C8 (as claimed): a request whose facilities fail validate_facilities_df
\* reaches no solver and ends with a validation error, not an envelope.
C8_InvalidInputIsRejected ==
    ~ ValidateFacilitiesDf(facilities) =>
      /\ pc \notin {"greedy", "hungarian"}
      /\ (pc = "done" => result.kind = "error")

-----------------------------------------------------------------------------
(* C9 *)

\* C9 (as claimed): for a non-empty facility frame, the returned envelope's
\* snapshot has one entry per input facility, in order, whose occupied_tt is
\* the input occupied_tt plus the assignments of this solve to it.
C9_SnapshotCoversEveryFacility ==
    (pc = "done" /\ facilities # <<>>) =>
      /\ Len(Envelope.facilities) = Len(facilities)
      /\ \A k \in 1..Len(Envelope.facilities) :
           /\ Envelope.facilities[k].hospital_id = facilities[k].id_rs
           /\ Envelope.facilities[k].occupied_tt
                = facilities[k].occupied_tt
                  + CountFor(Envelope.assignments, facilities[k].id_rs)

-----------------------------------------------------------------------------
(* C10 *)

\* C10 (as claimed): for every solver of the configuration, the 'before'
\* metrics run_scenario returns are compute_metrics of run_match on the
\* unmodified inputs, and the 'after' metrics those of run_match on the
\* perturbed inputs.
C10_ScenarioRunsTheOrchestrator ==
    (pc = "done" /\ result.kind = "ok") =>
      /\ result.response.before = ComputeMetrics(RunMatch(patients, facilities, config))
      /\ result.response.after
           = ComputeMetrics(RunMatch(sim.new_pat, sim.new_fac, sim.new_cfg))

-----------------------------------------------------------------------------
(* C11 *)

\* C11: no step of a simulation, the greedy runs it makes included, changes
\* the caller's facility frame, patient frame or configuration; every write
\* lands on a private copy.
C11_InputsAreNeverMutated ==
    [][patients' = patients /\ facilities' = facilities /\ config' = config]_vars

\* A capacity drop returned after changing the capacities of its copy.
C11_Witness ==
    /\ pc = "done" /\ result.kind = "ok"
    /\ scenario.type = "capacity_drop"
    /\ sim.new_fac # facilities
    /\ sim.base_result.assignments # <<>>

-----------------------------------------------------------------------------
(* C12 *)

KnownTypes == {"capacity_drop", "policy_change", "demand_spike"}

\* C12: a scenario whose type is none of the three never reaches the second
\* run, and ends as a ValueError that names the type (HTTP 400), never as a
\* before/after/delta record.
C12_UnknownTypeIsAnError ==
    scenario.type \notin KnownTypes =>
      /\ pc # "after"
      /\ pc = "done" =>
            /\ result.kind = "error"
            /\ result.error = "ValueError"
            /\ result.status_code = 400
            /\ result.detail[Len(result.detail)] = scenario.type

\* A request of the unknown type "surge" was answered.
C12_Witness ==
    /\ pc = "done" /\ scenario.type = "surge"
    /\ result.kind = "error"

-----------------------------------------------------------------------------
(* C13 *)

\* A solve with nothing to decide: no patient, no facility, or the optimal
\* solver with no slot.
DegenerateSolve ==
    \/ patients = <<>>
    \/ facilities = <<>>
    \/ (UsesOptimal(config) /\ SlotsNow = <<>>)

\* C13: a degenerate solve never enters the greedy loop or the Hungarian
\* algorithm and returns an envelope, not an error, with no assignment and
\* every patient counted as unassigned.
C13_DegenerateSolveReturnsEmpty ==
    DegenerateSolve =>
      /\ pc \notin {"greedy", "hungarian"}
      /\ hung = NoHung
      /\ pc = "done" =>
            /\ result.kind = "ok"
            /\ Envelope.assignments = <<>>
            /\ Envelope.summary.total_assigned = 0
            /\ Envelope.summary.total_unassigned = Len(patients)

\* The optimal solver returned for two patients and facilities without a
\* slot.
C13_Witness ==
    /\ pc = "done" /\ UsesOptimal(config)
    /\ Len(patients) = 2 /\ facilities # <<>>
    /\ SlotsNow = <<>>

-----------------------------------------------------------------------------
(* C14 *)

-----------------------------------------------------------------------------
(* C15 *)

\* C15: the list _feasible_candidates returns is in non-decreasing order of
\* cost, names only facilities with capacity, an occupancy ratio below
\* max_load, the patient's case among their services and a distance within
\* radius_km, and names no facility twice.
C15_CandidatesSortedFeasibleUnique ==
    pc = "done" =>
      LET rows == result.rows
          p == patients[sim.patient]
      IN  /\ \A k \in 1..(Len(rows) - 1) : rows[k].cost <= rows[k + 1].cost
          /\ \A k \in 1..Len(rows) :
                LET f == FacilityOf(rows[k].hospital_id) IN
                /\ f.capacity_tt > 0
                /\ RatLt(<<f.occupied_tt, f.capacity_tt>>, MaxLoad)
                /\ ServiceOffered(f.services, p.kasus)
                /\ Haversine(p.pos, f.pos) <= RadiusKm
          /\ \A j, k \in 1..Len(rows) : rows[j].hospital_id = rows[k].hospital_id => j = k
          /\ rows = FeasibleCandidates(p, facilities, config)

\* Two candidates were returned, the second facility of the frame first.
C15_Witness ==
    /\ pc = "done" /\ sim.step = "explain"
    /\ Len(result.rows) = 2
    /\ result.rows[1].hospital_id = "H2"
    /\ result.rows[1].cost < result.rows[2].cost

-----------------------------------------------------------------------------
\* The pairs linear_sum_assignment returned, and the matrix it was given.
LsaDone == pc = "done" /\ sim.step = "lsa"

PairsOf(res) == { res.pairs[k] : k \in 1..Len(res.pairs) }

\* The total cost of a set of pairs in a matrix.
RECURSIVE PairsCost(_, _)
PairsCost(cost, prs) ==
    IF prs = {} THEN 0
    ELSE LET pr == CHOOSE x \in prs : TRUE
         IN  cost[pr[1]][pr[2]] + PairsCost(cost, prs \ {pr})

\* Every set of min(m, n) pairs inside an m x n matrix that repeats no row and
\* no column.
PartialAssignments(m, n) ==
    IF m <= n
    THEN { { <<i, f[i]>> : i \in 1..m } :
             f \in { g \in [1..m -> 1..n] : \A a, b \in 1..m : a # b => g[a] # g[b] } }
    ELSE { { <<f[j], j>> : j \in 1..n } :
             f \in { g \in [1..n -> 1..m] : \A a, b \in 1..n : a # b => g[a] # g[b] } }

\* C16: linear_sum_assignment returns a minimum-cost assignment: min(m, n)
\* pairs inside the original matrix, no row and no column twice (a permutation
\* when the matrix is square), whose total cost is the least over all such
\* assignments.
C16_AssignmentIsMinimal ==
    LsaDone =>
        LET cost == sim.cost
            m == Len(cost)
            n == Len(cost[1])
            prs == PairsOf(result)
        IN  /\ Len(result.pairs) = Min(m, n)
            /\ prs \in PartialAssignments(m, n)
            /\ \A other \in PartialAssignments(m, n) :
                  PairsCost(cost, prs) <= PairsCost(cost, other)

\* A rectangular matrix solved with a pair that is not the cheapest entry of
\* its row.
C16_Witness ==
    /\ LsaDone
    /\ Len(sim.cost) # Len(sim.cost[1])
    /\ \E pr \in PairsOf(result) : \E j \in 1..Len(sim.cost[1]) :
          sim.cost[pr[1]][j] < sim.cost[pr[1]][pr[2]]

-----------------------------------------------------------------------------
StarsInRow(h, i) == { cell \in h.starred : cell[1] = i }
StarsInCol(h, j) == { cell \in h.starred : cell[2] = j }

\* One pass of the inner loop makes progress: an augmenting path adds a
\* starred zero; a prime on a starred row covers one more row and keeps the
\* stars; an adjustment keeps stars and covers and strictly lowers the minimum
\* of the uncovered submatrix.
HungarianProgress ==
    HungarianStep =>
        \/ Cardinality(hung'.starred) > Cardinality(hung.starred)
        \/ /\ hung'.starred = hung.starred
           /\ Cardinality(hung'.row_covered) > Cardinality(hung.row_covered)
        \/ /\ hung'.starred = hung.starred
           /\ hung'.row_covered = hung.row_covered
           /\ hung'.col_covered = hung.col_covered
           /\ UncoveredMin(hung') < UncoveredMin(hung)

\* At the exit of the outer loop every row and every column holds exactly one
\* starred zero.
HungarianExit ==
    (pc = "hungarian" /\ HungDone(hung)) =>
        \A k \in 1..hung.n :
            /\ Cardinality(StarsInRow(hung, k)) = 1
            /\ Cardinality(StarsInCol(hung, k)) = 1
            /\ \A cell \in StarsInRow(hung, k) : hung.c[cell[1]][cell[2]] = 0

\* The measure of the third case is bounded below: while the loop runs, the
\* uncovered submatrix is not empty and holds no negative entry.
HungarianBounded ==
    (pc = "hungarian" /\ ~ HungDone(hung)) =>
        /\ (1..hung.n) \ hung.row_covered # {}
        /\ (1..hung.n) \ hung.col_covered # {}
        /\ UncoveredMin(hung) >= 0
        /\ Cardinality(hung.starred) < hung.n

\* C17: _hungarian_square terminates on every square non-negative matrix, the
\* ones with all-sentinel rows and with zero padding among them: every pass
\* adds a starred zero, covers one more row or strictly lowers the minimum of
\* the uncovered submatrix, each of them bounded, and the loop exits with
\* exactly one starred zero in every row and every column.
C17_HungarianTerminates ==
    /\ [][HungarianProgress]_vars
    /\ [] HungarianBounded
    /\ [] HungarianExit

\* A padded matrix with a row of sentinels, solved after an adjustment of the
\* reduced matrix.
C17_Witness ==
    /\ LsaDone
    /\ Len(sim.cost) # Len(sim.cost[1])
    /\ \E i \in 1..Len(sim.cost) : \A j \in 1..Len(sim.cost[1]) : sim.cost[i][j] = INF
    /\ hung.c # HungInit(PadSquare(sim.cost, Len(sim.cost), Len(sim.cost[1]))).c

-----------------------------------------------------------------------------
OptimalRan == pc = "done" /\ UsesOptimal(config) /\ sim = NoSim /\ result.kind = "ok"

\* The k-th assignment leaves its facility at (occupied + j) / capacity, where
\* j counts the assignments to that facility up to and including the k-th.
SequentialAfter(asg, k) ==
    LET f == FacilityOf(asg[k].hospital_id)
    IN  RatEq(asg[k].occ_after, <<f.occupied_tt + EarlierAt(asg, k) + 1, f.capacity_tt>>)

\* occ_after = occ_before + 1 / capacity
OneBedApart(a) ==
    RatEq(a.occ_after, RatAdd(a.occ_before, <<1, FacilityOf(a.hospital_id).capacity_tt>>))

\* C18: every assignment of solve_hungarian_with_capacity has
\* occ_after = occ_before + 1/capacity, and the occ_after values of one
\* facility are (occupied + 1)/capacity, (occupied + 2)/capacity, ... in output
\* order, whichever slots were selected.
C18_SequentialFill ==
    OptimalRan =>
        \A k \in 1..Len(Envelope.assignments) :
            /\ OneBedApart(Envelope.assignments[k])
            /\ SequentialAfter(Envelope.assignments, k)

-----------------------------------------------------------------------------
\* The pairs the optimal solver decoded into assignments: those of
\* linear_sum_assignment whose cost is below the sentinel.
DecodedPairs ==
    LET raw == IF hung = NoHung THEN <<>>
               ELSE IF Len(patients) = Len(SlotsNow) THEN ExtractAssignment(hung)
               ELSE MaskPairs(ExtractAssignment(hung), Len(patients), Len(SlotsNow))
    IN  SelectSeq(raw, LAMBDA pr : MatrixNow[pr[1]][PyIndex(pr[2], Len(SlotsNow))] < INF)

\* max(0, floor(max_load * capacity) - floor(occupied)) for a facility row.
BedsAllowed(f) == Max(0, (MaxLoad[1] * f.capacity_tt) \div MaxLoad[2] - f.occupied_tt)

-----------------------------------------------------------------------------
\* One facility, and a batch of patients that may all go to it.
SingleFacilityBatch ==
    /\ Len(facilities) = 1 /\ Len(patients) >= 1
    /\ \A i \in 1..Len(patients) : PairAllowed(patients[i], facilities[1])

\* C20: the two solvers admit the same capacity: for one facility and a batch
\* of patients all feasible for it, greedy_match assigns as many patients as
\* solve_hungarian_with_capacity, for every max_load in (0, 1], capacity and
\* occupied value.
C20_SolversAdmitTheSameNumber ==
    (OptimalRan /\ SingleFacilityBatch) =>
        Len(Envelope.assignments) = Len(GreedyHere.assignments)

-----------------------------------------------------------------------------
\* Facility row k is feasible for patient p at the counters cmap: positive
\* capacity, ratio below max_load, service and radius.
FeasibleAt(p, k, cmap) ==
    LET rs == facilities[k]
        info == cmap[rs.id_rs]
    IN  /\ info.capacity_tt > 0
        /\ RatLt(<<info.occupied_tt, info.capacity_tt>>, MaxLoad)
        /\ ServicesMatch(rs.services, LowerStr(p.kasus))
        /\ Haversine(p.pos, rs.pos) <= RadiusKm

CostAt(p, k, cmap) ==
    ComputeCost(Haversine(p.pos, facilities[k].pos), cmap[facilities[k].id_rs].occupied_tt,
                cmap[facilities[k].id_rs].capacity_tt, Ex.weights, Ex.constraints)

\* The first row, in frame order, among the feasible rows of least cost.
FirstCheapest(p, cmap) ==
    LET feas == { k \in 1..Len(facilities) : FeasibleAt(p, k, cmap) }
        cheapest == { k \in feas : \A j \in feas : CostAt(p, k, cmap) <= CostAt(p, j, cmap) }
    IN  CHOOSE k \in cheapest : \A j \in cheapest : k <= j

GreedyChoosesFirstCheapest ==
    GreedyStep =>
        LET p == Head(queue)
            feas == { k \in 1..Len(facilities) : FeasibleAt(p, k, capacity_map) }
        IN  /\ queue' = Tail(queue) /\ pc' = "greedy"
            /\ IF feas = {}
               THEN assignments' = assignments /\ capacity_map' = capacity_map
               ELSE LET k == FirstCheapest(p, capacity_map)
                        row == assignments'[Len(assignments')]
                    IN  /\ Len(assignments') = Len(assignments) + 1
                        /\ SubSeq(assignments', 1, Len(assignments)) = assignments
                        /\ row.patient_id = p.id_pasien
                        /\ row.hospital_id = facilities[k].id_rs
                        /\ row.cost = CostAt(p, k, capacity_map)

\* C21: for each patient it processes, greedy_match assigns the facility of
\* minimum cost among those feasible at the current counters, the first in
\* facility order on a tie; a patient with no feasible facility is skipped and
\* the loop goes on with the next patient.
C21_GreedyPicksFirstCheapest == [][GreedyChoosesFirstCheapest]_vars

\* The first assignment of a run went to the first of two facilities that were
\* both feasible for the patient at the same cost.
C21_Witness ==
    /\ GreedyRan /\ sim = NoSim
    /\ Len(facilities) = 2 /\ Len(assignments) >= 1
    /\ LET p == PatientOf(assignments[1].patient_id)
           cmap == CapacityMapOf(facilities)
       IN  /\ FeasibleAt(p, 1, cmap) /\ FeasibleAt(p, 2, cmap)
           /\ CostAt(p, 1, cmap) = CostAt(p, 2, cmap)
           /\ assignments[1].hospital_id = facilities[1].id_rs

-----------------------------------------------------------------------------
\* The place of the patient with identifier id in the sequence q.
PlaceIn(q, id) == CHOOSE k \in 1..Len(q) : q[k].id_pasien = id

\* q holds the rows of ps by severity descending, rows of equal severity in
\* the order they have in ps.
SeverityOrderStable(q, ps) ==
    /\ Len(q) = Len(ps)
    /\ \A i \in 1..Len(ps) : \E k \in 1..Len(q) : q[k] = ps[i]
    /\ \A i, j \in 1..Len(ps) :
          (i < j) =>
            ( PlaceIn(q, ps[i].id_pasien) < PlaceIn(q, ps[j].id_pasien)
                <=> ps[i].severity >= ps[j].severity )

\* Two patients compete for the one admissible bed of the only facility: the
\* one of higher severity, or on a tie the first of the input, has it.
LastBedGoesToFirstInOrder ==
    ( /\ pc = "done" /\ GreedyRan /\ sim = NoSim
      /\ Len(patients) = 2 /\ Len(facilities) = 1
      /\ \A i \in 1..2 : FeasibleAt(patients[i], 1, CapacityMapOf(facilities))
      /\ Len(Envelope.assignments) = 1 )
    => Envelope.assignments[1].patient_id
         = (IF patients[2].severity > patients[1].severity
            THEN patients[2].id_pasien ELSE patients[1].id_pasien)

-----------------------------------------------------------------------------
IdsOf(rows) == { rows[k].id_pasien : k \in 1..Len(rows) }
AssignedIds(asg) == { asg[k].patient_id : k \in 1..Len(asg) }

\* No patient twice in a list of assignments, and nobody in it but patients
\* of the request.
EachPatientOnce(asg) ==
    /\ \A a, b \in 1..Len(asg) : a # b => asg[a].patient_id # asg[b].patient_id
    /\ AssignedIds(asg) \subseteq IdsOf(patients)

\* During the greedy loop the pending patients are each once in the queue and
\* none of them has an assignment.
PendingApart ==
    (pc = "greedy") =>
        /\ \A a, b \in 1..Len(queue) : a # b => queue[a].id_pasien # queue[b].id_pasien
        /\ IdsOf(queue) \subseteq IdsOf(patients)
        /\ IdsOf(queue) \cap AssignedIds(assignments) = {}
        /\ EachPatientOnce(assignments)

\* At the return every patient is assigned once or counted unassigned.
TerminalOnce ==
    (pc = "done" /\ sim = NoSim /\ result.kind = "ok") =>
        /\ EachPatientOnce(Envelope.assignments)
        /\ Envelope.summary.total_assigned = Cardinality(AssignedIds(Envelope.assignments))
        /\ Envelope.summary.total_assigned + Envelope.summary.total_unassigned = Len(patients)

\* A pass of the greedy loop takes the first pending patient out of the queue
\* for good and keeps every assignment made before.
NoWayBack ==
    GreedyStep =>
        /\ queue' = Tail(queue)
        /\ Head(queue).id_pasien \notin IdsOf(queue')
        /\ Len(assignments') >= Len(assignments)
        /\ SubSeq(assignments', 1, Len(assignments)) = assignments

\* C23: each patient goes from pending to exactly one terminal state: no
\* patient is assigned more than once in the assignment list of a greedy or
\* an optimal solve, and a patient once assigned or left unassigned is not
\* visited again within the solve.
C23_EachPatientEndsOnce ==
    /\ [] PendingApart
    /\ [] TerminalOnce
    /\ [][NoWayBack]_vars

\* An optimal solve of two patients ended with one assigned and one left.
C23_Witness ==
    /\ OptimalRan
    /\ Len(patients) = 2
    /\ Envelope.summary.total_assigned = 1
    /\ Envelope.summary.total_unassigned = 1

-----------------------------------------------------------------------------
\* apply_capacity_drop has returned: its frame is sim.new_fac, the frame it
\* was given is facilities.
CapacityDropDone ==
    /\ scenario.type = "capacity_drop"
    /\ sim.step \in {"perturbed", "after"}

\* drop_pct of the request, 0.0 when left out.
DropPct == Get(scenario.params.drop_pct, RatZero)

\* The facility row matches the region filter of the request.
MatchesFilter(rs) ==
    \/ scenario.params.wilayah = Absent
    \/ LowerStr(rs.wilayah) = LowerStr(scenario.params.wilayah[1])

\* round(num / den): the nearest integer, the even one of two equally near.
Nearest(num, den) ==
    CHOOSE n \in 0..(num \div den + 1) :
        /\ 2 * Abs(num - n * den) <= den
        /\ (2 * Abs(num - n * den) = den => n % 2 = 0)

\* C24: after apply_capacity_drop with drop_pct in [0, 1], every facility that
\* matches the filter has capacity_tt = max(occupied_tt, max(1,
\* round(capacity_tt * (1 - drop_pct)))), every facility has capacity_tt >=
\* occupied_tt, and no occupied_tt has changed.
C24_CapacityDropFormula ==
    (CapacityDropDone /\ RatLe(RatZero, DropPct) /\ RatLe(DropPct, RatOne)) =>
        /\ Len(sim.new_fac) = Len(facilities)
        /\ \A k \in 1..Len(facilities) :
              LET old == facilities[k]
                  new == sim.new_fac[k]
              IN  /\ MatchesFilter(old) =>
                        new.capacity_tt =
                          Max(old.occupied_tt,
                              Max(1, Nearest(old.capacity_tt * (DropPct[2] - DropPct[1]),
                                             DropPct[2])))
                  /\ new.capacity_tt >= new.occupied_tt
                  /\ new.occupied_tt = old.occupied_tt

\* A drop of one half took a bed from one facility and left another, full
\* one, at its occupied count.
C24_Witness ==
    /\ CapacityDropDone /\ DropPct = <<1, 2>>
    /\ \E k \in 1..Len(facilities) :
          /\ MatchesFilter(facilities[k])
          /\ sim.new_fac[k].capacity_tt < facilities[k].capacity_tt
    /\ \E k \in 1..Len(facilities) :
          /\ MatchesFilter(facilities[k])
          /\ facilities[k].occupied_tt >= 2
          /\ sim.new_fac[k].capacity_tt = facilities[k].occupied_tt

\* C25: apply_capacity_drop changes only the facilities that match the
\* filter: a facility that does not match has the capacity_tt and the
\* occupied_tt it had, also when its occupied_tt exceeded its capacity_tt.
C25_UnmatchedFacilitiesUntouched ==
    CapacityDropDone =>
        \A k \in 1..Len(facilities) :
            ~ MatchesFilter(facilities[k]) =>
                /\ sim.new_fac[k].capacity_tt = facilities[k].capacity_tt
                /\ sim.new_fac[k].occupied_tt = facilities[k].occupied_tt

-----------------------------------------------------------------------------
\* apply_demand_spike has returned: its frame is sim.new_pat, the frame it was
\* given is patients.
DemandSpikeDone ==
    /\ scenario.type = "demand_spike"
    /\ sim.step \in {"perturbed", "after"}

SpikePct == Get(scenario.params.spike_pct, RatZero)
SeverityShift == Get(scenario.params.severity_shift, 0)

\* The patients the case filter of the request keeps.
InFilter(p) ==
    \/ scenario.params.kasus = Absent
    \/ IsSubstring(LowerStr(scenario.params.kasus[1]), LowerStr(p.kasus))

FilteredCount == Cardinality({ k \in 1..Len(patients) : InFilter(patients[k]) })

\* Row e is a copy of patient p: the same place and case, p's identifier
\* with the spike suffix, p's severity with the shift.
SpikeCopyOf(e, p) ==
    /\ e.pos = p.pos /\ e.kasus = p.kasus
    /\ e.id_pasien = p.id_pasien \o <<"_SPK">>
    /\ e.severity = p.severity + SeverityShift

\* The frame returned is the input frame followed by
\* max(1, floor(filtered_count * spike_pct)) copies of filtered patients.
SpikeAppends ==
    /\ Len(sim.new_pat) =
         Len(patients) + Max(1, (FilteredCount * SpikePct[1]) \div SpikePct[2])
    /\ SubSeq(sim.new_pat, 1, Len(patients)) = patients
    /\ \A k \in (Len(patients) + 1)..Len(sim.new_pat) :
          \E j \in 1..Len(patients) :
              InFilter(patients[j]) /\ SpikeCopyOf(sim.new_pat[k], patients[j])

\* C26 (as claimed): for every spike_pct in [0, 1] and every non-empty
\* filtered subset, apply_demand_spike appends exactly
\* max(1, floor(filtered_count * spike_pct)) patients, each a copy of a
\* patient of the subset, after the original patients, unchanged and in
\* their order.
C26_SpikeAppendsFromZero ==
    ( /\ DemandSpikeDone /\ FilteredCount >= 1
      /\ RatLe(RatZero, SpikePct) /\ RatLe(SpikePct, RatOne) ) => SpikeAppends

\* C26 (amended): the same for every spike_pct in (0, 1]; at spike_pct 0 the
\* frame is returned as it was given.
C26_SpikeAppendsAboveZero ==
    /\ ( /\ DemandSpikeDone /\ FilteredCount >= 1
         /\ RatLt(RatZero, SpikePct) /\ RatLe(SpikePct, RatOne) ) => SpikeAppends
    /\ ( DemandSpikeDone /\ SpikePct = RatZero ) => sim.new_pat = patients

\* One filtered patient and a spike of one half: floor(0.5) is 0 and one copy
\* is appended.
C26_Witness ==
    /\ DemandSpikeDone
    /\ SpikePct = <<1, 2>>
    /\ FilteredCount = 1
    /\ Len(sim.new_pat) = Len(patients) + 1

-----------------------------------------------------------------------------
DistinctIds(rows) ==
    \A a, b \in 1..Len(rows) : a # b => rows[a].id_pasien # rows[b].id_pasien

\* C27: after apply_demand_spike on patients with pairwise distinct
\* identifiers, the identifiers of the resulting patients, the originals and
\* the appended ones, are pairwise distinct, whatever the sampling drew.
C27_SpikeKeepsIdsDistinct ==
    (DemandSpikeDone /\ DistinctIds(patients)) => DistinctIds(sim.new_pat)

-----------------------------------------------------------------------------
\* The values weights.wf takes in the second run: left out, 0, 0.5.
WfValues == {Absent, Some(0), Some(5)}

WithWf(cfg, wf) == [cfg EXCEPT !.weights.wf = wf]

\* C28: the reserved fairness weight is inert: run_match, with any solver, and
\* _feasible_candidates return the same assignments, costs and facility
\* snapshots on inputs that differ only in weights.wf, wf left out included.
C28_FairnessWeightIsInert ==
    (pc = "done" /\ sim = NoSim /\ result.kind = "ok") =>
        \A wf \in WfValues :
            /\ RunMatch(patients, facilities, WithWf(config, wf)) = result.envelope
            /\ \A k \in 1..Len(patients) :
                  FeasibleCandidates(patients[k], facilities, WithWf(config, wf))
                    = FeasibleCandidates(patients[k], facilities, config)

\* A run that assigned a patient at a cost above zero, under the optimal
\* solver, with a candidate for the patient.
C28_Witness ==
    /\ OptimalRan
    /\ Len(Envelope.assignments) >= 1
    /\ Envelope.assignments[1].cost > 0
    /\ FeasibleCandidates(patients[1], facilities, config) # <<>>

-----------------------------------------------------------------------------
(* The last-run cache: state.py StateManager and compute_data_signature,    *)
(* data_access.py load_data_for_matching, and the three handlers that use   *)
(* them, POST /match, GET /metrics and POST /explain.  The handlers are     *)
(* async def without an await, so each runs to its end before the next one  *)
(* starts: one action per request.  Here patients and facilities are the    *)
(* tables public.patients and public.facilities, config is the content of   *)
(* the configuration file, sim is the StateManager with the signature that  *)
(* compute_data_signature returns now, scenario is the request body,        *)
(* result the response, and pc the handler that ran last.                   *)

Upper(ch) ==
    CASE ch = "i" -> "I" [] ch = "c" -> "C" [] ch = "u" -> "U"
      [] ch = "g" -> "G" [] ch = "d" -> "D" [] OTHER -> ch

UpperStr(s) == [k \in 1..Len(s) |-> Upper(s[k])]

\* state.py lines 13-21: the signature is name:mtime:size of three files
\* under data/; two of its values are told apart.
Signatures == {"sig_a", "sig_b"}

NoRun == [run |-> "none"]

\* The rows of public.patients: P1 (ICU, severity 2, at H1, visit day 1)
\* and P2 (UGD, severity 1, at H2, visit day 2).
PatientRow(k) ==
    [ id_pasien |-> PatientId(k), pos |-> IF k = 1 THEN 2 ELSE 0,
      kasus |-> IF k = 1 THEN ICU ELSE UGD, severity |-> 3 - k, visit_date |-> k ]

\* The contents the tables and the configuration file take, each table in
\* the order of its query (severity DESC, patient_code; id_rs).
PatientTables == { <<PatientRow(1)>>, <<PatientRow(1), PatientRow(2)>> }

FacilityTables ==
    FacilityFrames({ [capacity_tt |-> 1, occupied_tt |-> 0,
                      services |-> [kind |-> "list", items |-> <<UGD, ICU>>]] }) \ {<<>>}

ConfigFiles == { ConfigOf(sv, 20, <<1, 1>>, 7) : sv \in {"greedy", "hungarian"} }

\* MatchRequest: each filter left out or given.
MatchBodies ==
    [ wilayah : {Absent, Some(<<"U">>)},
      visit_date : {Absent, Some(1)},
      service_type : {Absent, Some(ICU)} ]

NoFilter == [wilayah |-> Absent, visit_date |-> Absent, service_type |-> Absent]

\* ExplainRequest: patient_id left out, P1, or a patient no table has; limit
\* 1 or the default 10.
ExplainBodies == [ patient_id : {Absent, Some(PatientId(1)), Some(PatientId(9))},
                   limit : {1, 10} ]

\* data_access.py load_facilities_df(wilayah=...), lines 85-96.
LoadFacilitiesDf(wilayah) ==
    IF wilayah = Absent THEN facilities
    ELSE SelectSeq(facilities, LAMBDA f : f.wilayah = wilayah[1])

\* data_access.py load_patients_df(visit_date=..., service_type=...),
\* lines 138-154.
LoadPatientsDf(visit_date, service_type) ==
    SelectSeq(patients, LAMBDA p :
        /\ (visit_date = Absent \/ p.visit_date = visit_date[1])
        /\ (service_type = Absent \/ p.kasus = service_type[1]))

\* data_access.py load_data_for_matching, lines 169-197: three values.
LoadDataForMatching(body) ==
    [ facilities_df |-> LoadFacilitiesDf(body.wilayah),
      patients_df |-> LoadPatientsDf(body.visit_date, body.service_type),
      config |-> config ]

\* state.py compute_data_signature(), lines 13-21, now.
ComputeDataSignature == sim.signature

\* state.py set_last_run, lines 63-74: the StateManager afterwards.  Called
\* without a signature it computes one (line 68).
SetLastRun(cfg, res, sig) ==
    [sim EXCEPT !.last_run = [data_signature |-> sig, config |-> cfg, result |-> res]]

\* state.py get_last_run, lines 76-78.
GetLastRun == sim.last_run

\* state.py is_valid_for_current_data, lines 80-84.
IsValidForCurrentData ==
    IF sim.last_run = NoRun THEN FALSE
    ELSE sim.last_run.data_signature = ComputeDataSignature

ValueError == [kind |-> "error", error |-> "ValueError"]
Http404 == [kind |-> "error", error |-> "HTTPException 404"]

\* explain.py build_explanation_for_patient, lines 57-110: the item, its
\* narrative kept as the values the text is formatted from.
BuildExplanationForPatient(patient, assigned, facs, cfg) ==
    LET ex == ExplainExtractConfig(cfg)
        candidates == FeasibleCandidates(patient, facs, cfg)
        others == SelectSeq(candidates, LAMBDA c : c.hospital_id # assigned.hospital_id)
        alt == IF others = <<>> THEN Absent
               ELSE Some([ hospital_id |-> others[1].hospital_id,
                           distance_km |-> others[1].distance_km,
                           occ_ratio |-> others[1].occ_ratio,
                           cost |-> others[1].cost ])
    IN  [ patient_id |-> assigned.patient_id,
          hospital_id |-> assigned.hospital_id,
          narrative |-> [ severity |-> patient.severity,
                          distance_km |-> assigned.distance_km,
                          radius_km |-> ex.constraints.radius_km,
                          kasus |-> UpperStr(patient.kasus),
                          occ_before |-> assigned.occ_before,
                          target_occupancy |-> ex.constraints.target_occupancy,
                          occ_after |-> assigned.occ_after,
                          alternative |-> alt ],
          alternative |-> alt ]

\* endpoints/explain.py get_patient_row, lines 40-42: the rows of the id.
GetPatientRow(patients_df, pid) == SelectSeq(patients_df, LAMBDA p : p.id_pasien = pid)

\* endpoints/explain.py lines 55-60: the items of the assignments, one after
\* the other, an assignment without a patient row passed over.
RECURSIVE ExplainLoop(_, _, _, _)
ExplainLoop(asg, patients_df, facilities_df, cfg) ==
    IF asg = <<>> THEN <<>>
    ELSE LET prow == GetPatientRow(patients_df, Head(asg).patient_id)
             rest == ExplainLoop(Tail(asg), patients_df, facilities_df, cfg)
         IN  IF prow = <<>> THEN rest
             ELSE <<BuildExplanationForPatient(prow[1], Head(asg), facilities_df, cfg)>>
                    \o rest

\* endpoints/explain.py lines 36-63, from the result and the frames of
\* either branch: the response.  The configuration is read from the
\* StateManager mgr again (lines 52 and 59).
ExplainItems(body, res, patients_df, facilities_df, mgr, cached) ==
    LET asg == res.assignments
        cfg == IF mgr.last_run # NoRun THEN mgr.last_run.config
               ELSE [ weights |-> [wd |-> Absent, wo |-> Absent, wf |-> Absent],
                      constraints |-> [radius_km |-> Absent, max_load |-> Absent],
                      policy |-> [target_occupancy |-> Absent] ]
        ok(items) == [kind |-> "explain", cached |-> cached, count |-> Len(items),
                      items |-> items]
    IN  IF asg = <<>> THEN ok(<<>>)
        ELSE IF body.patient_id # Absent
        THEN LET match == SelectSeq(asg, LAMBDA a : a.patient_id = body.patient_id[1])
                 prow == GetPatientRow(patients_df, body.patient_id[1])
             IN  IF match = <<>> THEN Http404
                 ELSE IF prow = <<>> THEN Http404
                 ELSE ok(<<BuildExplanationForPatient(prow[1], match[1], facilities_df, cfg)>>)
        ELSE ok(ExplainLoop(SubSeq(asg, 1, Min(Len(asg), Max(1, body.limit))),
                            patients_df, facilities_df, cfg))

InitCache ==
    /\ patients \in PatientTables
    /\ facilities \in FacilityTables
    /\ config \in ConfigFiles
    /\ scenario = NoScenario
    /\ pc = "startup"
    /\ queue = <<>>
    /\ capacity_map = <<>>
    /\ assignments = <<>>
    /\ hung = NoHung
    /\ result = NoResult
    /\ sim = [step |-> "state", signature |-> "sig_a", last_run |-> NoRun]
    /\ tie_order = "kept"

\* endpoints/matching.py run_matching, lines 31-85: load with the filters of
\* the body, run, store the run under the signature of now, answer.
RunMatching ==
    \E body \in MatchBodies :
      LET data == LoadDataForMatching(body)
          res == RunMatch(data.patients_df, data.facilities_df, data.config)
      IN  /\ scenario' = body
          /\ sim' = SetLastRun(data.config, res, ComputeDataSignature)
          /\ result' = [kind |-> "match", envelope |-> res]
          /\ pc' = "run_matching"
          /\ UNCHANGED <<patients, facilities, config, Matcher>>
          /\ UNCHANGED tie_order

\* endpoints/metrics.py get_metrics, lines 13-29.
GetMetrics ==
    /\ IF IsValidForCurrentData /\ GetLastRun # NoRun
       THEN /\ result' = [kind |-> "metrics", cached |-> TRUE,
                          metrics |-> ComputeMetrics(GetLastRun.result)]
            /\ sim' = sim
       ELSE LET data == LoadDataForMatching(NoFilter)
                res == RunMatch(data.patients_df, data.facilities_df, data.config)
            IN  /\ sim' = SetLastRun(data.config, res, ComputeDataSignature)
                /\ result' = [kind |-> "metrics", cached |-> FALSE,
                              metrics |-> ComputeMetrics(res)]
    /\ scenario' = NoScenario
    /\ pc' = "get_metrics"
    /\ UNCHANGED <<patients, facilities, config, Matcher>>
    /\ UNCHANGED tie_order

\* endpoints/explain.py explain, lines 21-63.  In the cached branch line 26
\* unpacks the three values of load_data_for_matching() into two names,
\* which raises ValueError before anything else is done.
Explain ==
    \E body \in ExplainBodies :
      /\ IF GetLastRun # NoRun /\ IsValidForCurrentData
         THEN /\ result' = ValueError
              /\ sim' = sim
         ELSE LET data == LoadDataForMatching(NoFilter)
                  res == RunMatch(data.patients_df, data.facilities_df, data.config)
                  mgr == SetLastRun(data.config, res, ComputeDataSignature)
              IN  /\ sim' = mgr
                  /\ result' = ExplainItems(body, res, data.patients_df,
                                            data.facilities_df, mgr, FALSE)
      /\ scenario' = body
      /\ pc' = "explain"
      /\ UNCHANGED <<patients, facilities, config, Matcher>>
      /\ UNCHANGED tie_order

\* A write to public.patients or public.facilities: the tables change, the
\* files that compute_data_signature looks at do not.
DatabaseWrite ==
    /\ \E ps \in PatientTables, facs \in FacilityTables :
         /\ <<ps, facs>> # <<patients, facilities>>
         /\ patients' = ps
         /\ facilities' = facs
    /\ pc' = "database_write"
    /\ UNCHANGED <<config, scenario, result, sim, Matcher>>
    /\ UNCHANGED tie_order

\* A write to one of the three files under data/: the signature changes;
\* the configuration changes with it when the file is config.json.
FileWrite ==
    /\ \E sig \in Signatures \ {sim.signature}, cfg \in ConfigFiles :
         /\ sim' = [sim EXCEPT !.signature = sig]
         /\ config' = cfg
    /\ pc' = "file_write"
    /\ UNCHANGED <<patients, facilities, scenario, result, Matcher>>
    /\ UNCHANGED tie_order

NextCache == RunMatching \/ GetMetrics \/ Explain \/ DatabaseWrite \/ FileWrite

SpecCache == InitCache /\ [][NextCache]_vars

-----------------------------------------------------------------------------
\* What a metrics request arriving now would load and compute.
FreshMetrics ==
    LET data == LoadDataForMatching(NoFilter)
    IN  ComputeMetrics(RunMatch(data.patients_df, data.facilities_df, data.config))

\* The state a GET /metrics leaves that answered from the cached run; the
\* handler writes neither table nor file, and any later step changes pc.
MetricsFromCache == pc = "get_metrics" /\ result.kind = "metrics" /\ result.cached

\* C29: whenever GET /metrics answers from the cached last run, after any
\* interleaving of match requests (filtered or not), metrics requests and
\* changes of the patient and facility data, the answer equals
\* compute_metrics of a fresh run_match over the data a fresh metrics
\* request would load at that moment.
C29_CachedMetricsAreFresh == MetricsFromCache => result.metrics = FreshMetrics

-----------------------------------------------------------------------------
\* A run is cached and its signature is the signature of now.
CacheValid == GetLastRun # NoRun /\ IsValidForCurrentData

\* C30: with a run cached and the signature unchanged, an explain request
\* completes without error, leaves the cached run in place, and returns the
\* explanations of the assignments of that run, built with the
\* configuration stored in it.
C30_ExplainAnswersFromCache ==
    [][ (pc' = "explain" /\ CacheValid) =>
          /\ result'.kind # "error" \/ scenario'.patient_id # Absent
          /\ sim' = sim
          /\ scenario'.patient_id = Absent =>
               result' = ExplainItems(scenario', sim.last_run.result, patients,
                                      facilities, sim, TRUE) ]_vars

=============================================================================
